---- MODULE Spec2Model ----
(***************************************************************************)
(* Model of the firmware patch handlers of the MonsGeek/Akko keyboard      *)
(* (firmwares/2949-v407/patch/handlers.c) and of its 2.4 GHz dongle        *)
(* (firmwares/DONGLE_RY6108_RF_KB_V903/patch/handlers.c).                  *)
(*                                                                         *)
(* Byte arrays are functions over 0..N-1, as in C.  Every handler is one   *)
(* action; the value a handler returns and the endpoint transmissions it   *)
(* starts are kept in ret, ep0_tx and ep2_tx until the next handler runs.  *)
(***************************************************************************)
EXTENDS Integers, Sequences, FiniteSets, TLC

\* ------------------------------------------------------------------------
\* Bounds of the model (not program constants)
\* ------------------------------------------------------------------------

\* handle_hid_setup / connect-hook invocations explored per run
MaxSetupCalls == 2

\* handle_vendor_cmd invocations explored per run
MaxVendorCalls == 3

\* handler invocations of any kind explored per run of the whole layer
MaxOps == 3

\* bytes moved per step of the commit's copy and of the display refresh
ChunkBytes == 492

\* ------------------------------------------------------------------------
\* Program constants
\* ------------------------------------------------------------------------

IF1_RDESC_LEN == 171

CFG_IF1_WLEN_OFF == 50

LED_BUF_SIZE == 1968

LED_COUNT == 82

MATRIX_LEN == 96

LOG_BUF_SIZE == 512

RTT_BUF_SIZE == 256

LOG_HID_SETUP_ENTRY == 1

LOG_HID_SETUP_RESULT == 2

LOG_VENDOR_CMD_ENTRY == 3

LOG_USB_CONNECT == 4

\* bytes of g_vendor_cmd_buffer the handlers address (buf[0] .. buf[63])
CMD_BUF_LEN == 64

Byte == 0..255

\* ------------------------------------------------------------------------
\* C integer helpers
\* ------------------------------------------------------------------------

U8(x) == x % 256

U16(x) == x % 65536

\* a uint32_t counter, kept as its low and high 16-bit halves
U32_ZERO == [lo |-> 0, hi |-> 0]

\* c + 1 in uint32_t arithmetic
U32Inc(c) ==
    IF c.lo = 65535 THEN [lo |-> 0, hi |-> (c.hi + 1) % 65536]
    ELSE [lo |-> c.lo + 1, hi |-> c.hi]

\* (uint8_t)(x & 0xFF)
LoByte(x) == x % 256

\* (uint8_t)(x >> 8) for a 16-bit x
HiByte(x) == (x \div 256) % 256

\* (val & mask) != 0 for a single-bit mask
BitSet(val, mask) == (val \div mask) % 2 = 1

Min(a, b) == IF a < b THEN a ELSE b

\* a C array of n bytes, all zero (.bss)
ZeroBytes(n) == [i \in 0..(n - 1) |-> 0]

\* the C array holding the bytes of a sequence
ArrayOf(s) == [i \in 0..(Len(s) - 1) |-> s[i + 1]]

\* the first n bytes of a C array, as the sequence put on the wire
Wire(buf, n) == [k \in 1..n |-> buf[k - 1]]

\* ------------------------------------------------------------------------
\* hid_desc.h: report item builder
\* ------------------------------------------------------------------------

RI_TYPE_MAIN == 0

RI_TYPE_GLOBAL == 1

RI_TYPE_LOCAL == 2

RI_MAIN_INPUT == 8

RI_MAIN_COLLECTION == 10

RI_MAIN_FEATURE == 11

RI_MAIN_COLLECTION_END == 12

RI_GLOBAL_USAGE_PAGE == 0

RI_GLOBAL_LOGICAL_MIN == 1

RI_GLOBAL_LOGICAL_MAX == 2

RI_GLOBAL_REPORT_SIZE == 7

RI_GLOBAL_REPORT_ID == 8

RI_GLOBAL_REPORT_COUNT == 9

RI_LOCAL_USAGE == 0

\* HID_REPORT_DATA_<size>(data): 0, 1 or 2 little-endian data bytes
HID_REPORT_DATA(data, size) ==
    IF size = 0 THEN << >>
    ELSE IF size = 1 THEN << data >>
    ELSE << LoByte(data), HiByte(data) >>

HID_REPORT_ITEM(data, tag, type, size) ==
    << tag * 16 + type * 4 + size >> \o HID_REPORT_DATA(data, size)

HID_INPUT(x) == HID_REPORT_ITEM(x, RI_MAIN_INPUT, RI_TYPE_MAIN, 1)

HID_COLLECTION(x) == HID_REPORT_ITEM(x, RI_MAIN_COLLECTION, RI_TYPE_MAIN, 1)

HID_FEATURE(x) == HID_REPORT_ITEM(x, RI_MAIN_FEATURE, RI_TYPE_MAIN, 1)

HID_COLLECTION_END == HID_REPORT_ITEM(0, RI_MAIN_COLLECTION_END, RI_TYPE_MAIN, 0)

HID_USAGE_PAGE(x) == HID_REPORT_ITEM(x, RI_GLOBAL_USAGE_PAGE, RI_TYPE_GLOBAL, 1)

HID_LOGICAL_MIN(x) == HID_REPORT_ITEM(x, RI_GLOBAL_LOGICAL_MIN, RI_TYPE_GLOBAL, 1)

HID_LOGICAL_MAX(x) == HID_REPORT_ITEM(x, RI_GLOBAL_LOGICAL_MAX, RI_TYPE_GLOBAL, 1)

HID_LOGICAL_MAX_N(x, n) == HID_REPORT_ITEM(x, RI_GLOBAL_LOGICAL_MAX, RI_TYPE_GLOBAL, n)

HID_REPORT_SIZE(x) == HID_REPORT_ITEM(x, RI_GLOBAL_REPORT_SIZE, RI_TYPE_GLOBAL, 1)

HID_REPORT_COUNT(x) == HID_REPORT_ITEM(x, RI_GLOBAL_REPORT_COUNT, RI_TYPE_GLOBAL, 1)

HID_REPORT_ID(x) == HID_REPORT_ITEM(x, RI_GLOBAL_REPORT_ID, RI_TYPE_GLOBAL, 1)

HID_USAGE(x) == HID_REPORT_ITEM(x, RI_LOCAL_USAGE, RI_TYPE_LOCAL, 1)

\* HID_DATA | HID_VARIABLE | HID_ABSOLUTE = (0<<0) | (1<<1) | (0<<2)
HID_DATA_VARIABLE_ABSOLUTE == 2

\* the battery sub-descriptor, identical in both firmware variants
battery_rdesc_items ==
       HID_USAGE_PAGE(1)
    \o HID_USAGE(6)
    \o HID_COLLECTION(1)
    \o HID_REPORT_ID(7)
    \o HID_USAGE_PAGE(6)
    \o HID_USAGE(32)
    \o HID_LOGICAL_MIN(0)
    \o HID_LOGICAL_MAX_N(100, 2)
    \o HID_REPORT_SIZE(8)
    \o HID_REPORT_COUNT(1)
    \o HID_FEATURE(HID_DATA_VARIABLE_ABSOLUTE)
    \o HID_USAGE(32)
    \o HID_INPUT(HID_DATA_VARIABLE_ABSOLUTE)
    \o HID_USAGE_PAGE(133)
    \o HID_USAGE(68)
    \o HID_LOGICAL_MIN(0)
    \o HID_LOGICAL_MAX(1)
    \o HID_REPORT_SIZE(8)
    \o HID_REPORT_COUNT(1)
    \o HID_FEATURE(HID_DATA_VARIABLE_ABSOLUTE)
    \o HID_USAGE(68)
    \o HID_INPUT(HID_DATA_VARIABLE_ABSOLUTE)
    \o HID_COLLECTION_END

battery_rdesc == ArrayOf(battery_rdesc_items)

\* sizeof(battery_rdesc)
BATTERY_RDESC_LEN == Len(battery_rdesc_items)

EXTENDED_RDESC_LEN == IF1_RDESC_LEN + BATTERY_RDESC_LEN

\* ------------------------------------------------------------------------
\* State
\* ------------------------------------------------------------------------

VARIABLES
    variant,                \* "kbd" (2949-v407) or "dongle" (RY6108)
    connected,              \* the connect/init hook has returned
    g_if1_report_desc,      \* original IF1 report descriptor (firmware data)
    extended_rdesc,         \* uint8_t extended_rdesc[EXTENDED_RDESC_LEN]
    wlen,                   \* the four cached wDescriptorLength fields
    g_battery_level,        \* kbd: g_battery_level, dongle: kb_battery_info
    g_charger_connected,    \* kbd: g_charger_connected, dongle: kb_charging
    ep2_ready,              \* *(volatile uint8_t *)0x20000023
    diag,                   \* diagnostics record
    log_buf,                \* debug ring buffer
    bat_report,             \* static uint8_t bat_report[4]
    prev_charging,          \* static latch of handle_vendor_cmd
                            \* (dongle: of handle_rf_dispatch)
    prev_inited,            \* dongle: static latch of handle_rf_dispatch
    prev_battery,           \* dongle: static latch of handle_rf_dispatch
    seen_charging,          \* history: charging value the previous
                            \* handle_vendor_cmd invocation read (-1: none)
    seen_battery,           \* history: battery value the previous
                            \* periodic-hook invocation read (-1: none)
    unsent,                 \* history: a change met a busy endpoint and no
                            \* push has followed
    g_vendor_cmd_buffer,    \* vendor command mailbox
    stream_active,          \* LED engine mode (0 Released, 1 Streaming)
    saved_led_effect_mode,
    led_effect_mode,        \* g_fw_config.led_effect_mode
    g_led_frame_buf,
    g_led_dma_buf,
    static_led_pos_tbl,     \* position map in firmware ROM
    rtt_cb,                 \* RTT control block
    rtt_buf,
    ep0_tx,                 \* control-endpoint transmissions of the last handler
    ep2_tx,                 \* interrupt-IN transmissions of the last handler
    ret,                    \* value returned by the last handler
    op,                     \* the last handler invocation and its input
    session,                \* history: "released" or "streaming"
    mode_at_entry,          \* history: animation mode when the session began
    submitted,              \* history: triple last submitted per position
    frame0,                 \* history: frame buffer content at power-on
    commit_pc,              \* "idle", or "memcpy" inside the commit's copy
    copy_pos,               \* bytes the commit's memcpy has copied so far
    scan_pos,               \* bytes the SPI DMA has read in this refresh
    scanned,                \* the bytes this refresh has read (-1: not yet)
    overlapped,             \* this refresh read a byte during a commit
    images,                 \* history: whole contents the display was given
    log_total,              \* history: bytes LogEntry steps have appended
    recent,                 \* history: the last of them, at most 512
    log_idx,                \* history: data[] indices the last append stored to
    nhandled,               \* history: setup-filter invocations that returned 1
    emit_pc,                \* rtt_emit: -1 outside, k: byte k is stored next,
                            \* 5: the wr_off store is next
    emit_wr,                \* rtt_emit: local wr
    emit_rec,               \* rtt_emit: tag and the four value bytes
    init_pc,                \* rtt_init: 0 outside, else the next store
    rtt_calls,              \* rtt_emit calls so far
    published,              \* history: << tag, val >> of the records whose
                            \* emit reached the wr_off store
    consumed,               \* history: bytes the probe has taken
    pr_pc,                  \* probe poll: 0 idle, 1 offsets read,
                            \* 2 buffer bytes read
    pr_wr,                  \* probe poll: the wr_off it read
    pr_rd,                  \* probe poll: the rd_off it read
    pr_bytes,               \* probe poll: the buffer bytes it read
    nsetup,                 \* setup-filter / hook invocations so far
    nvendor                 \* periodic-hook invocations so far
                            \* (handle_vendor_cmd, handle_rf_dispatch)

usb_vars == << connected, g_if1_report_desc, extended_rdesc, wlen >>

env_vars == << g_battery_level, g_charger_connected, ep2_ready >>

diag_vars == << diag, log_buf >>

led_vars == << stream_active, saved_led_effect_mode, led_effect_mode,
               g_led_frame_buf, g_led_dma_buf, static_led_pos_tbl,
               session, mode_at_entry, submitted, frame0, commit_pc,
               copy_pos, scan_pos, scanned, overlapped, images >>

rtt_vars == << rtt_cb, rtt_buf >>

out_vars == << ep0_tx, ep2_tx, ret, op >>

latch_vars == << prev_charging, prev_inited, prev_battery, seen_charging,
                 seen_battery, unsent >>

hist_vars == << log_total, recent, log_idx >>

swd_vars == << pr_pc, pr_wr, pr_rd, pr_bytes >>

probe_vars == << emit_pc, emit_wr, emit_rec, init_pc, rtt_calls, published,
                 consumed, swd_vars >>

vars == << variant, usb_vars, env_vars, diag_vars, bat_report, latch_vars,
           hist_vars, nhandled, probe_vars, g_vendor_cmd_buffer, led_vars,
           rtt_vars, out_vars, nsetup, nvendor >>

\* ------------------------------------------------------------------------
\* Descriptor extension (DescriptorExtender)
\* ------------------------------------------------------------------------

WLEN_FIELDS == {"IF1_HDESC", "CFG_FS", "CFG_HS", "CFG_OS"}

\* a 16-bit value stored as 2 bytes, little-endian
LE16(x) == [k \in 0..1 |-> IF k = 0 THEN LoByte(x) ELSE HiByte(x)]

\* value of a 2-byte little-endian field
FromLE16(f) == f[0] + 256 * f[1]

\* variant of RebuildExtendedRdesc whose append loop starts one byte late
RebuildExtendedRdesc_shifted(orig) ==
    [i \in 0..(EXTENDED_RDESC_LEN - 1) |->
        IF i <= IF1_RDESC_LEN THEN orig[i % IF1_RDESC_LEN]
        ELSE battery_rdesc[i - IF1_RDESC_LEN]]

\* memcpy(extended_rdesc, g_if1_report_desc, IF1_RDESC_LEN) followed by the
\* loop appending battery_rdesc
RebuildExtendedRdesc(orig) ==
    [i \in 0..(EXTENDED_RDESC_LEN - 1) |->
        IF i < IF1_RDESC_LEN THEN orig[i] ELSE battery_rdesc[i - IF1_RDESC_LEN]]

\* variant of PatchWDescriptorLength that leaves the OS copy alone
PatchWDescriptorLength_skip_os(w) ==
    [f \in WLEN_FIELDS |->
        IF f = "CFG_OS" THEN w[f]
        ELSE [k \in 0..1 |-> IF k = 0 THEN LoByte(EXTENDED_RDESC_LEN)
                                      ELSE HiByte(EXTENDED_RDESC_LEN)]]

\* the eight byte stores into the cached wDescriptorLength fields
PatchWDescriptorLength(w) ==
    [f \in WLEN_FIELDS |->
        [k \in 0..1 |-> IF k = 0 THEN LoByte(EXTENDED_RDESC_LEN)
                                 ELSE HiByte(EXTENDED_RDESC_LEN)]]

\* ------------------------------------------------------------------------
\* Debug ring buffer (LogRing)
\* ------------------------------------------------------------------------

\* store into a C array; the index is inside the array in every state
\* reachable from zeroed storage
Store(arr, idx, v) == IF idx \in DOMAIN arr THEN [arr EXCEPT ![idx] = v] ELSE arr

RECURSIVE log_put(_, _, _, _)
\* the byte stores of log_entry: bytes[lo..hi] written in order at head,
\* head wrapping after each store
log_put(lb, bytes, lo, hi) ==
    IF lo > hi THEN lb
    ELSE IF lo = hi
    THEN [lb EXCEPT !.data = Store(lb.data, lb.head, bytes[lo]),
                    !.head = (lb.head + 1) % LOG_BUF_SIZE]
    ELSE LET mid  == (lo + hi) \div 2
             left == log_put(lb, bytes, lo, mid)
         IN  \* head is below LOG_BUF_SIZE after any store
             CASE left.head \in 0..(LOG_BUF_SIZE - 1) ->
                      log_put(left, bytes, mid + 1, hi)

log_entry(lb, type, payload) ==
    LET total == 1 + Len(payload)
        w     == log_put(lb, << type >> \o payload, 1, total)
    IN  [w EXCEPT !.count = IF lb.count <= LOG_BUF_SIZE - total
                            THEN U16(lb.count + total)
                            ELSE LOG_BUF_SIZE]

\* ------------------------------------------------------------------------
\* RTT control block (TelemetryRing)
\* ------------------------------------------------------------------------

\* "SEGGER RTT" followed by NUL padding, 16 bytes
RTT_MAGIC == << 83, 69, 71, 71, 69, 82, 32, 82, 84, 84, 0, 0, 0, 0, 0, 0 >>

rtt_cb_zero ==
    [id |-> [k \in 1..16 |-> 0], max_up |-> 0, max_down |-> 0,
     name |-> "null", buf |-> "null", size |-> 0,
     wr_off |-> 0, rd_off |-> 0, flags |-> 0]

\* the control block when rtt_init returns
rtt_init_cb ==
    [id |-> RTT_MAGIC, max_up |-> 1, max_down |-> 0,
     name |-> "rtt_channel_name", buf |-> "rtt_buf", size |-> RTT_BUF_SIZE,
     wr_off |-> 0, rd_off |-> 0, flags |-> 0]

\* ------------------------------------------------------------------------
\* Setup packets (Setup Packet View)
\* ------------------------------------------------------------------------

\* the 8 bytes of a setup packet as they lie in memory
SetupBytes(bmReqType, bRequest, wValue, wIndex, wLength) ==
    << bmReqType, bRequest, LoByte(wValue), HiByte(wValue),
       LoByte(wIndex), HiByte(wIndex), LoByte(wLength), HiByte(wLength) >>

\* the fields both variants read from the packet
SetupView(pkt) ==
    [bmReqType |-> pkt[1],
     bRequest  |-> pkt[2],
     wValue    |-> U16(pkt[3] + pkt[4] * 256),
     wIndex    |-> U16(pkt[5] + pkt[6] * 256),
     wLength   |-> U16(pkt[7] + pkt[8] * 256)]

\* variant of IsBatteryGetReport comparing only the low byte of wIndex
IsBatteryGetReport_lowbyte(s) ==
    /\ s.wIndex % 256 = 1
    /\ s.bmReqType = 161
    /\ s.bRequest = 1
    /\ s.wValue = 775

\* the condition under which handle_hid_setup intercepts
IsBatteryGetReport(s) ==
    /\ s.wIndex = 1
    /\ s.bmReqType = 161
    /\ s.bRequest = 1
    /\ s.wValue = 775

\* variant of XferLen without the cap
XferLen_uncapped(wLength) == 3

\* (wLength < 3) ? wLength : 3
XferLen(wLength) == IF wLength < 3 THEN wLength ELSE 3

\* the static report buffer after the three stores
BatReport(buf, level, charging) ==
    [buf EXCEPT ![0] = 7, ![1] = level, ![2] = charging]

\* variant of bat_input that sends two bytes
bat_input_short(level, charging) ==
    Wire(BatReport(ZeroBytes(4), level, charging), 2)

\* the interrupt-IN transmission of handle_hid_setup: the three stores into
\* the transmit buffer and the 3 bytes sent from it
bat_input(level, charging) ==
    Wire(BatReport(ZeroBytes(4), level, charging), 3)

\* ------------------------------------------------------------------------
\* Inputs explored
\* ------------------------------------------------------------------------

\* contents the firmware's original IF1 report descriptor may have
OrigRdesc(seed) == [i \in 0..(IF1_RDESC_LEN - 1) |-> (i * 37 + seed) % 256]

RdescSeeds == {5, 200}

\* requested lengths W of the matching GET_REPORT
WLengths == {0, 2, 3, 4, 65535}

\* the matching packet for each W, and packets that differ from it in
\* exactly one field (wIndex, bmRequestType, bRequest, wValue)
MatchingPkts == {SetupBytes(161, 1, 775, 1, w) : w \in WLengths}

OtherPkts ==
    { SetupBytes(161, 1, 775, 0, 3),        \* interface 0
      SetupBytes(161, 1, 775, 257, 3),      \* wIndex 0x0101
      SetupBytes(33, 1, 775, 1, 3),         \* host-to-device class request
      SetupBytes(161, 2, 775, 1, 3),        \* GET_IDLE
      SetupBytes(161, 1, 263, 1, 3),        \* Input report, ID 7
      SetupBytes(161, 1, 774, 1, 3),        \* Feature report, ID 6
      SetupBytes(129, 6, 8704, 1, 217) }    \* GET_DESCRIPTOR(report)

SetupPkts == MatchingPkts \cup OtherPkts

BatteryLevels == {87, 100}

Charging == {0, 1}

\* ------------------------------------------------------------------------
\* Initial state: static storage is zero, descriptors hold the original
\* length, the firmware globals hold one of the explored values
\* ------------------------------------------------------------------------

diag_zero ==
    [hid_setup_calls |-> U32_ZERO, hid_setup_intercepts |-> U32_ZERO,
     last_bmReqType |-> 0, last_bRequest |-> 0, last_wValue |-> 0,
     last_wIndex |-> 0, last_wLength |-> 0,
     last_battery_level |-> 0, last_result |-> 0]

log_buf_zero == [head |-> 0, count |-> 0, data |-> ZeroBytes(LOG_BUF_SIZE)]

no_op == [name |-> "none", arg |-> << >>]

InitUsb ==
    /\ connected = FALSE
    /\ \E seed \in RdescSeeds : g_if1_report_desc = OrigRdesc(seed)
    /\ extended_rdesc = ZeroBytes(EXTENDED_RDESC_LEN)
    /\ wlen = [f \in WLEN_FIELDS |-> LE16(IF1_RDESC_LEN)]

InitStatics ==
    /\ diag = diag_zero
    /\ log_buf = log_buf_zero
    /\ bat_report = ZeroBytes(4)
    /\ prev_charging = 0
    /\ prev_inited = 0
    /\ prev_battery = 0
    /\ seen_charging = -1
    /\ seen_battery = -1
    /\ unsent = FALSE
    /\ rtt_cb = rtt_cb_zero
    /\ rtt_buf = ZeroBytes(RTT_BUF_SIZE)
    /\ g_vendor_cmd_buffer = ZeroBytes(CMD_BUF_LEN)

InitOut ==
    /\ nhandled = 0
    /\ log_total = 0
    /\ recent = << >>
    /\ log_idx = << >>
    /\ emit_pc = -1
    /\ emit_wr = 0
    /\ emit_rec = << >>
    /\ init_pc = 0
    /\ rtt_calls = 0
    /\ published = << >>
    /\ consumed = 0
    /\ pr_pc = 0
    /\ pr_wr = 0
    /\ pr_rd = 0
    /\ pr_bytes = << >>
    /\ ep0_tx = << >>
    /\ ep2_tx = << >>
    /\ ret = 0
    /\ op = no_op
    /\ nsetup = 0
    /\ nvendor = 0

\* ------------------------------------------------------------------------
\* Connect / init hooks
\* ------------------------------------------------------------------------

\* keyboard: int handle_usb_connect(void)
UsbConnect ==
    /\ variant = "kbd"
    /\ log_buf' = log_entry(log_buf, LOG_USB_CONNECT, << >>)
    /\ rtt_cb' = rtt_init_cb
    /\ rtt_buf' = ZeroBytes(RTT_BUF_SIZE)
    /\ wlen' = PatchWDescriptorLength(wlen)
    /\ extended_rdesc' = RebuildExtendedRdesc(g_if1_report_desc)
    /\ connected' = TRUE
    /\ ret' = 0
    /\ ep0_tx' = << >>
    /\ ep2_tx' = << >>
    /\ op' = [name |-> "usb_connect", arg |-> << >>]
    /\ nsetup' = nsetup + 1
    /\ UNCHANGED << variant, nhandled, hist_vars, probe_vars,
                    g_if1_report_desc, env_vars, diag, bat_report,
                    latch_vars, g_vendor_cmd_buffer, led_vars, nvendor >>

\* dongle: static void patch_descriptors(void)
patch_descriptors ==
    /\ extended_rdesc' = RebuildExtendedRdesc(g_if1_report_desc)
    /\ wlen' = PatchWDescriptorLength(wlen)

\* dongle: void handle_usb_init(void)
UsbInit ==
    /\ variant = "dongle"
    /\ patch_descriptors
    /\ connected' = TRUE
    /\ ret' = 0
    /\ ep0_tx' = << >>
    /\ ep2_tx' = << >>
    /\ op' = [name |-> "usb_init", arg |-> << >>]
    /\ nsetup' = nsetup + 1
    /\ UNCHANGED << variant, nhandled, hist_vars, probe_vars,
                    g_if1_report_desc, env_vars, diag_vars, bat_report,
                    latch_vars, g_vendor_cmd_buffer, led_vars, rtt_vars,
                    nvendor >>

\* ------------------------------------------------------------------------
\* Setup filter
\* ------------------------------------------------------------------------

\* keyboard: int handle_hid_setup(otg_dev_handle_t *udev)
KbdHidSetup(pkt) ==
    LET s        == SetupView(pkt)
        hit      == IsBatteryGetReport(s)
        xfer_len == XferLen(s.wLength)
        report   == BatReport(bat_report, g_battery_level, g_charger_connected)
        d1       == [diag EXCEPT !.hid_setup_calls = U32Inc(@),
                                 !.last_bmReqType = s.bmReqType,
                                 !.last_bRequest = s.bRequest,
                                 !.last_wValue = s.wValue,
                                 !.last_wIndex = s.wIndex,
                                 !.last_wLength = s.wLength]
        l1       == log_entry(log_buf, LOG_HID_SETUP_ENTRY, pkt)
    IN  /\ variant = "kbd"
        /\ connected
        /\ extended_rdesc' = RebuildExtendedRdesc(g_if1_report_desc)
        /\ wlen' = PatchWDescriptorLength(wlen)
        /\ IF hit
           THEN /\ bat_report' = report
                /\ ep0_tx' = << Wire(report, xfer_len) >>
                /\ ep2_tx' = IF ep2_ready # 0
                             THEN << bat_input(g_battery_level,
                                               g_charger_connected) >>
                             ELSE << >>
                /\ diag' = [d1 EXCEPT !.last_battery_level = g_battery_level,
                                      !.last_result = 1,
                                      !.hid_setup_intercepts = U32Inc(@)]
                /\ log_buf' = log_entry(l1, LOG_HID_SETUP_RESULT,
                                        << 1, g_battery_level >>)
                /\ ret' = 1
           ELSE /\ bat_report' = bat_report
                /\ ep0_tx' = << >>
                /\ ep2_tx' = << >>
                /\ diag' = [d1 EXCEPT !.last_result = 0]
                /\ log_buf' = log_entry(l1, LOG_HID_SETUP_RESULT, << 0, 0 >>)
                /\ ret' = 0
        /\ op' = [name |-> "hid_setup", arg |-> pkt]
        /\ nsetup' = nsetup + 1
        /\ nhandled' = nhandled + ret'
        /\ UNCHANGED << variant, hist_vars, probe_vars,
                        connected, g_if1_report_desc, env_vars,
                        latch_vars, g_vendor_cmd_buffer, led_vars, rtt_vars,
                        nvendor >>

\* dongle: int handle_hid_setup(void *udev, uint8_t *setup_pkt)
DongleHidSetup(pkt) ==
    LET s        == SetupView(pkt)
        hit      == IsBatteryGetReport(s)
        xfer_len == XferLen(s.wLength)
        report   == BatReport(bat_report, g_battery_level, g_charger_connected)
    IN  /\ variant = "dongle"
        /\ connected
        /\ patch_descriptors
        /\ IF hit
           THEN /\ bat_report' = report
                /\ ep0_tx' = << Wire(report, xfer_len) >>
                /\ ep2_tx' = << bat_input(g_battery_level,
                                          g_charger_connected) >>
                /\ ret' = 1
           ELSE /\ bat_report' = bat_report
                /\ ep0_tx' = << >>
                /\ ep2_tx' = << >>
                /\ ret' = 0
        /\ op' = [name |-> "hid_setup", arg |-> pkt]
        /\ nsetup' = nsetup + 1
        /\ nhandled' = nhandled + ret'
        /\ UNCHANGED << variant, hist_vars, probe_vars,
                        connected, g_if1_report_desc, env_vars,
                        diag_vars, latch_vars, g_vendor_cmd_buffer, led_vars,
                        rtt_vars, nvendor >>

\* the firmware updates the battery state and the endpoint becomes busy/idle
EnvChange(level, charging, ready) ==
    /\ << level, charging, ready >> #
           << g_battery_level, g_charger_connected, ep2_ready >>
    /\ g_battery_level' = level
    /\ g_charger_connected' = charging
    /\ ep2_ready' = ready
    /\ ep0_tx' = << >>
    /\ ep2_tx' = << >>
    /\ ret' = 0
    /\ op' = [name |-> "env", arg |-> << >>]
    /\ UNCHANGED << variant, nhandled, hist_vars, probe_vars,
                    usb_vars, diag_vars, bat_report, latch_vars,
                    g_vendor_cmd_buffer, led_vars, rtt_vars, nsetup, nvendor >>

\* ------------------------------------------------------------------------
\* LED streaming (LedStreamEngine)
\* ------------------------------------------------------------------------

\* page values of the led-stream command
PAGE_COMMIT == 255

PAGE_RELEASE == 254

\* pages below this value are data pages
PAGE_LIMIT == 7

\* colour triples per data page
PAGE_KEYS == 18

\* encoded bytes per LED: 3 channels of 8 bytes
LED_SLOT == 24

\* the invalid effect mode written while streaming
MODE_SUSPENDED == 255

WS2812_ONE == 240

WS2812_ZERO == 192

\* (val & mask) ? 0xF0 : 0xC0
Ws2812Bit(val, mask) == IF BitSet(val, mask) THEN WS2812_ONE ELSE WS2812_ZERO

\* variant of encode_ws2812_byte that emits the least significant bit first
encode_ws2812_byte_lsb(mem, at, val) ==
    [mem EXCEPT ![at]     = Ws2812Bit(val, 1),
                ![at + 1] = Ws2812Bit(val, 2),
                ![at + 2] = Ws2812Bit(val, 4),
                ![at + 3] = Ws2812Bit(val, 8),
                ![at + 4] = Ws2812Bit(val, 16),
                ![at + 5] = Ws2812Bit(val, 32),
                ![at + 6] = Ws2812Bit(val, 64),
                ![at + 7] = Ws2812Bit(val, 128)]

\* static void encode_ws2812_byte(volatile uint8_t *p, uint8_t val): the
\* array mem after the eight stores p[0] .. p[7], p being &mem[at]
encode_ws2812_byte(mem, at, val) ==
    [mem EXCEPT ![at]     = Ws2812Bit(val, 128),
                ![at + 1] = Ws2812Bit(val, 64),
                ![at + 2] = Ws2812Bit(val, 32),
                ![at + 3] = Ws2812Bit(val, 16),
                ![at + 4] = Ws2812Bit(val, 8),
                ![at + 5] = Ws2812Bit(val, 4),
                ![at + 6] = Ws2812Bit(val, 2),
                ![at + 7] = Ws2812Bit(val, 1)]

\* variant of StoreLed that writes the channels in R, G, B order
StoreLed_rgb(frame, strip_idx, r, g, b) ==
    LET p == strip_idx * LED_SLOT
    IN  encode_ws2812_byte(
            encode_ws2812_byte(encode_ws2812_byte(frame, p, r), p + 8, g),
            p + 16, b)

\* the frame buffer after the three encode_ws2812_byte calls for one LED:
\* p = &frame[strip_idx * 24]; g at p, r at p + 8, b at p + 16
StoreLed(frame, strip_idx, r, g, b) ==
    LET p == strip_idx * LED_SLOT
    IN  encode_ws2812_byte(
            encode_ws2812_byte(encode_ws2812_byte(frame, p, g), p + 8, r),
            p + 16, b)

RECURSIVE led_page_loop(_, _, _, _, _)
\* for (int i = 0; i < 18 && (start + i) < MATRIX_LEN; i++) { ... }
led_page_loop(frame, tbl, buf, start, i) ==
    IF ~(i < PAGE_KEYS /\ start + i < MATRIX_LEN) THEN frame
    ELSE LET strip_idx == tbl[start + i]
         IN  IF strip_idx >= LED_COUNT
             THEN led_page_loop(frame, tbl, buf, start, i + 1)
             ELSE led_page_loop(
                      StoreLed(frame, strip_idx, buf[4 + i * 3],
                               buf[4 + i * 3 + 1], buf[4 + i * 3 + 2]),
                      tbl, buf, start, i + 1)

\* variant of LedCommit whose copy stops one LED short
LedCommit_short(buf, st) ==
    [st EXCEPT !.dma = [j \in DOMAIN st.dma |->
                           IF j < LED_BUF_SIZE - LED_SLOT THEN st.frame[j]
                           ELSE st.dma[j]],
               !.buf = [buf EXCEPT ![0] = 0],
               !.ret = 1]

\* variant of LedCommit that suspends the animation as a data page does
LedCommit_suspend(buf, st) ==
    [st EXCEPT !.active = IF st.active = 0 THEN 1 ELSE st.active,
               !.saved = IF st.active = 0 THEN st.mode ELSE st.saved,
               !.mode = IF st.active = 0 THEN MODE_SUSPENDED ELSE st.mode,
               !.dma = [j \in DOMAIN st.dma |->
                           IF j < LED_BUF_SIZE THEN st.frame[j] ELSE st.dma[j]],
               !.buf = [buf EXCEPT ![0] = 0],
               !.ret = 1]

\* handle_led_stream, page == 0xFF: memcpy(g_led_dma_buf, g_led_frame_buf,
\* LED_BUF_SIZE), clear the pending flag, return 1
LedCommit(buf, st) ==
    [st EXCEPT !.dma = [j \in DOMAIN st.dma |->
                           IF j < LED_BUF_SIZE THEN st.frame[j] ELSE st.dma[j]],
               !.buf = [buf EXCEPT ![0] = 0],
               !.ret = 1]

\* variant of LedRelease that restores the saved mode unconditionally
LedRelease_unguarded(buf, st) ==
    [st EXCEPT !.active = 0,
               !.mode = st.saved,
               !.buf = [buf EXCEPT ![0] = 0],
               !.ret = 1]

\* handle_led_stream, page == 0xFE: restore the saved mode if streaming
LedRelease(buf, st) ==
    [st EXCEPT !.active = 0,
               !.mode = IF st.active # 0 THEN st.saved ELSE st.mode,
               !.buf = [buf EXCEPT ![0] = 0],
               !.ret = 1]

\* variant of LedDataPage that saves the mode on every data page
LedDataPage_resave(buf, st) ==
    [st EXCEPT !.active = IF st.active = 0 THEN 1 ELSE st.active,
               !.saved = st.mode,
               !.mode = MODE_SUSPENDED,
               !.frame = led_page_loop(st.frame, st.tbl, buf,
                                       U8(buf[3] * PAGE_KEYS), 0),
               !.buf = [buf EXCEPT ![0] = 0],
               !.ret = 1]

\* variant of LedDataPage that writes the sentinel only for page 0
LedDataPage_page0(buf, st) ==
    [st EXCEPT !.active = IF st.active = 0 THEN 1 ELSE st.active,
               !.saved = IF st.active = 0 THEN st.mode ELSE st.saved,
               !.mode = IF st.active = 0 /\ buf[3] = 0 THEN MODE_SUSPENDED
                        ELSE st.mode,
               !.frame = led_page_loop(st.frame, st.tbl, buf,
                                       U8(buf[3] * PAGE_KEYS), 0),
               !.buf = [buf EXCEPT ![0] = 0],
               !.ret = 1]

\* variant of LedDataPage whose positions start over at 0 past the map's end
LedDataPage_wrap(buf, st) ==
    [st EXCEPT !.active = IF st.active = 0 THEN 1 ELSE st.active,
               !.saved = IF st.active = 0 THEN st.mode ELSE st.saved,
               !.mode = IF st.active = 0 THEN MODE_SUSPENDED ELSE st.mode,
               !.frame = led_page_loop(st.frame, st.tbl, buf,
                                       U8(buf[3] * PAGE_KEYS) % MATRIX_LEN, 0),
               !.buf = [buf EXCEPT ![0] = 0],
               !.ret = 1]

\* handle_led_stream, page < 7: on the first page save the mode and write
\* 0xFF, then encode the page into the frame buffer
LedDataPage(buf, st) ==
    [st EXCEPT !.active = IF st.active = 0 THEN 1 ELSE st.active,
               !.saved = IF st.active = 0 THEN st.mode ELSE st.saved,
               !.mode = IF st.active = 0 THEN MODE_SUSPENDED ELSE st.mode,
               !.frame = led_page_loop(st.frame, st.tbl, buf,
                                       U8(buf[3] * PAGE_KEYS), 0),
               !.buf = [buf EXCEPT ![0] = 0],
               !.ret = 1]

\* variant of handle_led_stream that takes every other page as a data page
handle_led_stream_anypage(buf, st) ==
    LET page == buf[3]
    IN  IF page = PAGE_COMMIT THEN LedCommit(buf, st)
        ELSE IF page = PAGE_RELEASE THEN LedRelease(buf, st)
        ELSE LedDataPage(buf, st)

\* static int handle_led_stream(volatile uint8_t *buf): the state it leaves
\* and the value it returns, from the state st it finds
handle_led_stream(buf, st) ==
    LET page == buf[3]
    IN  IF page = PAGE_COMMIT THEN LedCommit(buf, st)
        ELSE IF page = PAGE_RELEASE THEN LedRelease(buf, st)
        ELSE IF page < PAGE_LIMIT THEN LedDataPage(buf, st)
        ELSE [st EXCEPT !.ret = 0]

\* the state handle_led_stream works on
LedState ==
    [active |-> stream_active, saved |-> saved_led_effect_mode,
     mode |-> led_effect_mode, frame |-> g_led_frame_buf,
     dma |-> g_led_dma_buf, tbl |-> static_led_pos_tbl,
     buf |-> g_vendor_cmd_buffer, ret |-> 0]

\* ------------------------------------------------------------------------
\* Patch discovery and log read
\* ------------------------------------------------------------------------

CMD_PATCH_INFO == 251

CMD_LED_STREAM == 252

CMD_LOG_READ == 253

\* bytes per log-read page
LOG_PAGE_SIZE == 56

\* "MONSMOD" and the terminating NUL, buf[8..15]
PATCH_NAME == << 77, 79, 78, 83, 77, 79, 68, 0 >>

\* variant of fill_patch_info_response with the two signature bytes in the
\* other order
fill_patch_info_response_swapped(buf, d, level, charging) ==
    [i \in DOMAIN buf |->
        IF i = 3 THEN 254
        ELSE IF i = 4 THEN 202
        ELSE IF i = 5 THEN 1
        ELSE IF i = 6 THEN 7
        ELSE IF i = 7 THEN 0
        ELSE IF i >= 8 /\ i <= 15 THEN PATCH_NAME[i - 7]
        ELSE IF i = 16 THEN LoByte(d.hid_setup_calls.lo)
        ELSE IF i = 17 THEN HiByte(d.hid_setup_calls.lo)
        ELSE IF i = 18 THEN LoByte(d.hid_setup_intercepts.lo)
        ELSE IF i = 19 THEN HiByte(d.hid_setup_intercepts.lo)
        ELSE IF i = 20 THEN d.last_bmReqType
        ELSE IF i = 21 THEN d.last_bRequest
        ELSE IF i = 22 THEN LoByte(d.last_wValue)
        ELSE IF i = 23 THEN HiByte(d.last_wValue)
        ELSE IF i = 24 THEN LoByte(d.last_wIndex)
        ELSE IF i = 25 THEN HiByte(d.last_wIndex)
        ELSE IF i = 26 THEN LoByte(d.last_wLength)
        ELSE IF i = 27 THEN HiByte(d.last_wLength)
        ELSE IF i = 28 THEN d.last_battery_level
        ELSE IF i = 29 THEN d.last_result
        ELSE IF i = 30 THEN level
        ELSE IF i = 31 THEN charging
        ELSE IF i >= 32 /\ i <= 49 THEN 0
        ELSE buf[i]]

\* variant of fill_patch_info_response whose counters stop at 0xFFFF
fill_patch_info_response_sat(buf, d, level, charging) ==
    [i \in DOMAIN buf |->
        IF i = 3 THEN 202
        ELSE IF i = 4 THEN 254
        ELSE IF i = 5 THEN 1
        ELSE IF i = 6 THEN 7
        ELSE IF i = 7 THEN 0
        ELSE IF i >= 8 /\ i <= 15 THEN PATCH_NAME[i - 7]
        ELSE IF i = 16 THEN (IF d.hid_setup_calls.hi # 0 THEN 255
                              ELSE LoByte(d.hid_setup_calls.lo))
        ELSE IF i = 17 THEN (IF d.hid_setup_calls.hi # 0 THEN 255
                              ELSE HiByte(d.hid_setup_calls.lo))
        ELSE IF i = 18 THEN (IF d.hid_setup_intercepts.hi # 0 THEN 255
                              ELSE LoByte(d.hid_setup_intercepts.lo))
        ELSE IF i = 19 THEN (IF d.hid_setup_intercepts.hi # 0 THEN 255
                              ELSE HiByte(d.hid_setup_intercepts.lo))
        ELSE IF i = 20 THEN d.last_bmReqType
        ELSE IF i = 21 THEN d.last_bRequest
        ELSE IF i = 22 THEN LoByte(d.last_wValue)
        ELSE IF i = 23 THEN HiByte(d.last_wValue)
        ELSE IF i = 24 THEN LoByte(d.last_wIndex)
        ELSE IF i = 25 THEN HiByte(d.last_wIndex)
        ELSE IF i = 26 THEN LoByte(d.last_wLength)
        ELSE IF i = 27 THEN HiByte(d.last_wLength)
        ELSE IF i = 28 THEN d.last_battery_level
        ELSE IF i = 29 THEN d.last_result
        ELSE IF i = 30 THEN level
        ELSE IF i = 31 THEN charging
        ELSE IF i >= 32 /\ i <= 49 THEN 0
        ELSE buf[i]]

\* static void fill_patch_info_response(volatile uint8_t *buf): magic,
\* version, capabilities, name, diagnostics; of the raw firmware fields
\* read at buf[30..49] only battery level and charger flag are modelled,
\* the others read as 0
fill_patch_info_response(buf, d, level, charging) ==
    [i \in DOMAIN buf |->
        IF i = 3 THEN 202
        ELSE IF i = 4 THEN 254
        ELSE IF i = 5 THEN 1
        ELSE IF i = 6 THEN 7
        ELSE IF i = 7 THEN 0
        ELSE IF i >= 8 /\ i <= 15 THEN PATCH_NAME[i - 7]
        ELSE IF i = 16 THEN LoByte(d.hid_setup_calls.lo)
        ELSE IF i = 17 THEN HiByte(d.hid_setup_calls.lo)
        ELSE IF i = 18 THEN LoByte(d.hid_setup_intercepts.lo)
        ELSE IF i = 19 THEN HiByte(d.hid_setup_intercepts.lo)
        ELSE IF i = 20 THEN d.last_bmReqType
        ELSE IF i = 21 THEN d.last_bRequest
        ELSE IF i = 22 THEN LoByte(d.last_wValue)
        ELSE IF i = 23 THEN HiByte(d.last_wValue)
        ELSE IF i = 24 THEN LoByte(d.last_wIndex)
        ELSE IF i = 25 THEN HiByte(d.last_wIndex)
        ELSE IF i = 26 THEN LoByte(d.last_wLength)
        ELSE IF i = 27 THEN HiByte(d.last_wLength)
        ELSE IF i = 28 THEN d.last_battery_level
        ELSE IF i = 29 THEN d.last_result
        ELSE IF i = 30 THEN level
        ELSE IF i = 31 THEN charging
        ELSE IF i >= 32 /\ i <= 49 THEN 0
        ELSE buf[i]]

\* static int handle_patch_info(volatile uint8_t *buf)
handle_patch_info(buf, d, level, charging) ==
    [fill_patch_info_response(buf, d, level, charging) EXCEPT ![0] = 0]

\* variant of handle_log_read that leaves the pending flag set
handle_log_read_pending(buf, lb) ==
    LET page   == buf[3]
        offset == U16(page * LOG_PAGE_SIZE)
    IN  [i \in DOMAIN buf |->
            IF i = 3 THEN LoByte(lb.count)
            ELSE IF i = 4 THEN HiByte(lb.count)
            ELSE IF i = 5 THEN LoByte(lb.head)
            ELSE IF i = 6 THEN HiByte(lb.head)
            ELSE IF i = 7 THEN HiByte(LOG_BUF_SIZE)
            ELSE IF i >= 8 /\ i < 8 + LOG_PAGE_SIZE
                 THEN IF offset + (i - 8) < LOG_BUF_SIZE
                      THEN lb.data[(offset + (i - 8)) % LOG_BUF_SIZE]
                      ELSE 0
            ELSE buf[i]]

\* static int handle_log_read(volatile uint8_t *buf)
handle_log_read(buf, lb) ==
    LET page   == buf[3]
        offset == U16(page * LOG_PAGE_SIZE)
    IN  [i \in DOMAIN buf |->
            IF i = 0 THEN 0
            ELSE IF i = 3 THEN LoByte(lb.count)
            ELSE IF i = 4 THEN HiByte(lb.count)
            ELSE IF i = 5 THEN LoByte(lb.head)
            ELSE IF i = 6 THEN HiByte(lb.head)
            ELSE IF i = 7 THEN HiByte(LOG_BUF_SIZE)
            ELSE IF i >= 8 /\ i < 8 + LOG_PAGE_SIZE
                 THEN IF offset + (i - 8) < LOG_BUF_SIZE
                      THEN lb.data[(offset + (i - 8)) % LOG_BUF_SIZE]
                      ELSE 0
            ELSE buf[i]]

\* ------------------------------------------------------------------------
\* Vendor command dispatcher
\* ------------------------------------------------------------------------

\* the mailbox indices handle_patch_info stores to, in program order:
\* buf[3] .. buf[49], then buf[0]
patch_info_stores == [k \in 1..48 |-> IF k <= 47 THEN k + 2 ELSE 0]

\* the mailbox indices handle_log_read stores to, in program order:
\* buf[3] .. buf[7], buf[8] .. buf[63], then buf[0]
log_read_stores == [k \in 1..62 |-> IF k <= 61 THEN k + 2 ELSE 0]

\* the mailbox indices handle_led_stream stores to: buf[0] in the commit,
\* release and data-page branches
led_stream_stores(buf) ==
    IF buf[3] = PAGE_COMMIT \/ buf[3] = PAGE_RELEASE \/ buf[3] < PAGE_LIMIT
    THEN << 0 >> ELSE << >>

\* the mailbox indices one handle_vendor_cmd invocation stores to
MailboxStores(buf) ==
    IF buf[0] = 0 THEN << >>
    ELSE IF buf[2] = CMD_PATCH_INFO THEN patch_info_stores
    ELSE IF buf[2] = CMD_LED_STREAM THEN led_stream_stores(buf)
    ELSE IF buf[2] = CMD_LOG_READ THEN log_read_stores
    ELSE << >>

\* history of the LED session, following the engine's transitions:
\* Released -(data page)-> Streaming -(release)-> Released
IsDataPage(buf) == buf[2] = CMD_LED_STREAM /\ buf[3] < PAGE_LIMIT

IsRelease(buf) == buf[2] = CMD_LED_STREAM /\ buf[3] = PAGE_RELEASE

IsCommit(buf) == buf[2] = CMD_LED_STREAM /\ buf[3] = PAGE_COMMIT

\* the triples a data page submits, by logical position
SubmittedBy(buf, old) ==
    [pos \in DOMAIN old |->
        LET i == pos - buf[3] * PAGE_KEYS
        IN  IF i >= 0 /\ i < PAGE_KEYS
            THEN << buf[4 + i * 3], buf[4 + i * 3 + 1], buf[4 + i * 3 + 2] >>
            ELSE old[pos]]

\* variant of Pending that also takes a left-over opcode for a command
Pending_opcode(buf) == buf[0] # 0 \/ buf[2] # 0

\* handle_vendor_cmd: if (cmd_buf[0] == 0) return 0;
Pending(buf) == buf[0] # 0

\* variant of vendor_log that records log-read commands too
vendor_log_all(lb, buf) ==
    log_entry(lb, LOG_VENDOR_CMD_ENTRY, << buf[0], buf[2] >>)

\* variant of vendor_log that records only the opcodes the patch serves
vendor_log_served(lb, buf) ==
    IF buf[2] \in {CMD_PATCH_INFO, CMD_LED_STREAM}
    THEN log_entry(lb, LOG_VENDOR_CMD_ENTRY, << buf[0], buf[2] >>)
    ELSE lb

\* handle_vendor_cmd: the command record, skipped for 0xFD
vendor_log(lb, buf) ==
    IF buf[2] # CMD_LOG_READ
    THEN log_entry(lb, LOG_VENDOR_CMD_ENTRY, << buf[0], buf[2] >>)
    ELSE lb

\* variant of charge_check that pushes on every invocation
charge_check_always(prev, cur, ready, level) ==
    [prev |-> cur,
     tx   |-> IF ready # 0 THEN << << 7, level, cur >> >> ELSE << >>]

\* handle_vendor_cmd, the block before the pending check: the latch
\* prev_charging and the interrupt-IN transmissions after it
charge_check(prev, cur, ready, level) ==
    [prev |-> IF cur # prev THEN cur ELSE prev,
     tx   |-> IF cur # prev /\ ready # 0 THEN << << 7, level, cur >> >>
              ELSE << >>]

\* history: a change of the read charging value met a busy endpoint and
\* no push has followed
Unsent(tx, cur) ==
    IF tx # << >> THEN FALSE
    ELSE IF seen_charging # -1 /\ cur # seen_charging /\ ep2_ready = 0
         THEN TRUE
    ELSE unsent

\* keyboard: int handle_vendor_cmd(void)
VendorCmd ==
    LET cmd_buf == g_vendor_cmd_buffer
        chk     == charge_check(prev_charging, g_charger_connected,
                                ep2_ready, g_battery_level)
        pending == Pending(cmd_buf)
        l1      == IF pending THEN vendor_log(log_buf, cmd_buf) ELSE log_buf
        led     == IF pending /\ cmd_buf[2] = CMD_LED_STREAM
                   THEN handle_led_stream(cmd_buf, LedState)
                   ELSE LedState
    IN  /\ variant = "kbd"
        /\ prev_charging' = chk.prev
        /\ ep2_tx' = chk.tx
        /\ seen_charging' = g_charger_connected
        /\ seen_battery' = g_battery_level
        /\ unsent' = Unsent(chk.tx, g_charger_connected)
        /\ UNCHANGED << prev_inited, prev_battery >>
        /\ ep0_tx' = << >>
        /\ log_buf' = l1
        /\ stream_active' = led.active
        /\ saved_led_effect_mode' = led.saved
        /\ led_effect_mode' = led.mode
        /\ g_led_frame_buf' = led.frame
        /\ g_led_dma_buf' = led.dma
        /\ g_vendor_cmd_buffer' =
               IF ~pending THEN cmd_buf
               ELSE IF cmd_buf[2] = CMD_PATCH_INFO
                    THEN handle_patch_info(cmd_buf, diag, g_battery_level,
                                           g_charger_connected)
               ELSE IF cmd_buf[2] = CMD_LED_STREAM THEN led.buf
               ELSE IF cmd_buf[2] = CMD_LOG_READ
                    THEN handle_log_read(cmd_buf, log_buf)
               ELSE cmd_buf
        /\ ret' = IF ~pending THEN 0
                  ELSE IF cmd_buf[2] = CMD_PATCH_INFO THEN 1
                  ELSE IF cmd_buf[2] = CMD_LED_STREAM THEN led.ret
                  ELSE IF cmd_buf[2] = CMD_LOG_READ THEN 1
                  ELSE 0
        /\ op' = [name |-> "vendor_cmd",
                  arg |-> << cmd_buf[0], cmd_buf[2], cmd_buf[3] >>,
                  stores |-> MailboxStores(cmd_buf)]
        /\ session' = IF pending /\ IsDataPage(cmd_buf) THEN "streaming"
                      ELSE IF pending /\ IsRelease(cmd_buf) THEN "released"
                      ELSE session
        /\ mode_at_entry' = IF pending /\ IsDataPage(cmd_buf)
                               /\ session = "released"
                            THEN led_effect_mode ELSE mode_at_entry
        /\ submitted' = IF pending /\ IsDataPage(cmd_buf)
                        THEN SubmittedBy(cmd_buf, submitted) ELSE submitted
        /\ nvendor' = nvendor + 1
        /\ UNCHANGED << variant, nhandled, hist_vars, probe_vars,
                        usb_vars, env_vars, diag, bat_report,
                        static_led_pos_tbl, frame0, rtt_vars, nsetup,
                        commit_pc, copy_pos, scan_pos, scanned, overlapped,
                        images >>

\* ------------------------------------------------------------------------
\* The host writes a vendor command (firmware SET_REPORT handler): pending
\* flag at byte 0, opcode at byte 2, opcode payload from byte 3
\* ------------------------------------------------------------------------

\* RGB payload of a data page, buf[4..57]
Payload(seed, page, k) == (k * 7 + page * 31 + seed) % 256

HostWrite(opcode, page, seed) ==
    /\ variant = "kbd"
    /\ g_vendor_cmd_buffer' =
           [i \in 0..(CMD_BUF_LEN - 1) |->
               IF i = 0 THEN 1
               ELSE IF i = 1 THEN g_vendor_cmd_buffer[1]
               ELSE IF i = 2 THEN opcode
               ELSE IF i = 3 THEN page
               ELSE IF i < 4 + 3 * PAGE_KEYS /\ opcode = CMD_LED_STREAM
                       /\ page < PAGE_LIMIT
                    THEN Payload(seed, page, i - 4)
               ELSE 0]
    /\ g_vendor_cmd_buffer' # g_vendor_cmd_buffer
    /\ ep0_tx' = << >>
    /\ ep2_tx' = << >>
    /\ ret' = 0
    /\ op' = [name |-> "host_write", arg |-> << 1, opcode, page >>]
    /\ UNCHANGED << variant, nhandled, hist_vars, probe_vars,
                    usb_vars, env_vars, diag_vars, bat_report,
                    latch_vars, led_vars, rtt_vars, nsetup, nvendor >>

\* ------------------------------------------------------------------------
\* Firmware data the LED engine finds
\* ------------------------------------------------------------------------

\* matrix positions without an LED in the two position maps explored
Gaps(w) ==
    IF w = 1
    THEN {14, 15, 30, 31, 45, 47, 61, 63, 78, 79, 83, 84, 86, 87}
    ELSE {0, 13, 14, 15, 29, 31, 46, 47, 62, 63, 77, 79, 83, 84, 86, 95}

\* a position map: every LED sits at one matrix position; gaps hold 0xFF,
\* the second map has one out-of-range entry other than 0xFF and leaves
\* the strip indices 0 and 1 without a position
PosTbl(w) ==
    [pos \in 0..(MATRIX_LEN - 1) |->
        LET rank == Cardinality({q \in 0..(pos - 1) : q \notin Gaps(w)})
        IN  IF pos \in Gaps(w) THEN (IF w = 2 /\ pos = 46 THEN 200 ELSE 255)
            ELSE IF w = 1 THEN rank
            ELSE LED_COUNT - 1 - rank]

\* contents of the frame and display buffers at power-on
BufFill(seed) == [j \in 0..(LED_BUF_SIZE - 1) |-> (j * 13 + seed) % 256]

Worlds == {1, 2}

\* valid built-in effect modes
LedModes == {1, 5}

PayloadSeeds == {17, 140}

InitLedEngine ==
    /\ stream_active = 0
    /\ saved_led_effect_mode = 0
    /\ led_effect_mode \in LedModes
    /\ \E w \in Worlds :
          /\ static_led_pos_tbl = PosTbl(w)
          /\ g_led_frame_buf = BufFill(w)
          /\ g_led_dma_buf = BufFill(w + 100)
    /\ frame0 = g_led_frame_buf
    /\ commit_pc = "idle"
    /\ copy_pos = 0
    /\ scan_pos = 0
    /\ scanned = [j \in 0..(LED_BUF_SIZE - 1) |-> -1]
    /\ overlapped = FALSE
    /\ images = {g_led_dma_buf}
    /\ session = "released"
    /\ mode_at_entry = led_effect_mode
    /\ submitted = [pos \in 0..(MATRIX_LEN - 1) |-> << >>]

Init ==
    /\ variant \in {"kbd", "dongle"}
    /\ InitUsb
    /\ g_battery_level = 87
    /\ g_charger_connected = 0
    /\ ep2_ready = 1
    /\ InitStatics
    /\ InitLedEngine
    /\ InitOut

\* ------------------------------------------------------------------------
\* Specification of the setup filter and the connect hooks, both variants
\* ------------------------------------------------------------------------

InitSetup ==
    /\ Init
    /\ static_led_pos_tbl = PosTbl(1)
    /\ led_effect_mode = 1

NextSetup ==
    \/ nsetup < MaxSetupCalls /\ UsbConnect
    \/ nsetup < MaxSetupCalls /\ UsbInit
    \/ nsetup < MaxSetupCalls /\ \E pkt \in SetupPkts : KbdHidSetup(pkt)
    \/ nsetup < MaxSetupCalls /\ \E pkt \in SetupPkts : DongleHidSetup(pkt)
    \/ \E level \in BatteryLevels, charging \in Charging, ready \in {0, 1} :
          EnvChange(level, charging, ready)

SpecSetup == InitSetup /\ [][NextSetup]_vars

\* ------------------------------------------------------------------------
\* Properties of the setup filter and the descriptor extension
\* ------------------------------------------------------------------------

\* the packet is GET_REPORT(Feature, ID 7) to interface 1: bytes
\* A1 01 07 03 01 00 followed by any wLength
MatchesBatteryRequest(pkt) ==
    /\ pkt[1] = 161 /\ pkt[2] = 1
    /\ pkt[3] = 7 /\ pkt[4] = 3
    /\ pkt[5] = 1 /\ pkt[6] = 0

\* requested length W of a packet
RequestedLength(pkt) == pkt[7] + 256 * pkt[8]

\* [7, level, charging] for the current battery state
CurrentReport == << 7, g_battery_level, g_charger_connected >>

\* C1: a matching GET_REPORT with requested length W starts exactly one
\* control-endpoint transmission, of min(W,3) bytes, equal to the first
\* min(W,3) bytes of [7, level, charging]; in both variants.
C1_GetReportCapped ==
    (op.name = "hid_setup" /\ MatchesBatteryRequest(op.arg)) =>
        /\ Len(ep0_tx) = 1
        /\ Len(ep0_tx[1]) = Min(RequestedLength(op.arg), 3)
        /\ ep0_tx[1] = SubSeq(CurrentReport, 1, Min(RequestedLength(op.arg), 3))

\* a matching request for 2 bytes was answered with 2 bytes by the dongle
C1_Witness ==
    /\ variant = "dongle"
    /\ op.name = "hid_setup" /\ MatchesBatteryRequest(op.arg)
    /\ RequestedLength(op.arg) = 2
    /\ ep0_tx = << << 7, g_battery_level >> >>
    /\ g_battery_level = 100

BatteryRdescBytes ==
    << 5, 1, 9, 6, 161, 1, 133, 7,
       5, 6, 9, 32, 21, 0, 38, 100, 0, 117, 8, 149, 1, 177, 2, 9, 32, 129, 2,
       5, 133, 9, 68, 21, 0, 37, 1, 117, 8, 149, 1, 177, 2, 9, 68, 129, 2,
       192 >>

\* the extended buffer is original ++ battery sub-descriptor, 217 bytes
ExtendedRdescBuilt ==
    /\ DOMAIN extended_rdesc = 0..216
    /\ \A i \in 0..170 : extended_rdesc[i] = g_if1_report_desc[i]
    /\ \A i \in 0..45 : extended_rdesc[171 + i] = BatteryRdescBytes[i + 1]

\* every cached length field holds 217 as 2 bytes little-endian
LengthsPatched ==
    \A f \in {"IF1_HDESC", "CFG_FS", "CFG_HS", "CFG_OS"} :
        wlen[f][0] = 217 /\ wlen[f][1] = 0

RanPatch(o) == o.name \in {"usb_connect", "usb_init", "hid_setup"}

\* C3: after the connect/init hook and after every handle_hid_setup call
\* the extended buffer is original ++ battery sub-descriptor (217 bytes)
\* and all four length fields hold 217 little-endian; a further run of
\* the operation changes neither the buffer nor the fields.
C3_RebuildPatchIdempotent ==
    /\ [](RanPatch(op) => (ExtendedRdescBuilt /\ LengthsPatched))
    /\ [][(RanPatch(op) /\ RanPatch(op'))
              => (extended_rdesc' = extended_rdesc /\ wlen' = wlen)]_vars

\* the operation has run a second time, on a packet that does not match
C3_Witness ==
    /\ nsetup >= 2
    /\ op.name = "hid_setup" /\ ~MatchesBatteryRequest(op.arg)
    /\ ExtendedRdescBuilt /\ LengthsPatched

\* C4: from the return of the connect/init hook on, the length fields
\* hold the extended length and the buffer holds original ++ battery
\* sub-descriptor in every state, whatever class-setup events follow.
C4_PatchedOnceConnected ==
    connected => (ExtendedRdescBuilt /\ LengthsPatched)

\* after the hook, a class request to interface 0 was passed through and
\* the battery state changed since
C4_Witness ==
    /\ connected
    /\ op.name = "env"
    /\ variant = "kbd"
    /\ diag.hid_setup_calls.lo = 1 /\ diag.last_wIndex = 0
    /\ LengthsPatched

\* ------------------------------------------------------------------------
\* Specification of the LED engine: led-stream commands through the
\* vendor dispatcher of the keyboard
\* ------------------------------------------------------------------------

\* << opcode, page, payload seed >> of the led-stream commands explored:
\* data pages 0, 5 and 6, release, commit and the undefined page 7
LedCmds ==
    { << CMD_LED_STREAM, 0, 17 >>, << CMD_LED_STREAM, 5, 140 >>,
      << CMD_LED_STREAM, 6, 17 >>, << CMD_LED_STREAM, PAGE_RELEASE, 0 >>,
      << CMD_LED_STREAM, PAGE_COMMIT, 0 >>, << CMD_LED_STREAM, 7, 0 >> }

InitLed ==
    /\ Init
    /\ variant = "kbd"
    /\ g_if1_report_desc = OrigRdesc(5)
    /\ (static_led_pos_tbl = PosTbl(1)) <=> (led_effect_mode = 1)

NextLed ==
    \/ nvendor < MaxVendorCalls /\ \E c \in LedCmds : HostWrite(c[1], c[2], c[3])
    \/ nvendor < MaxVendorCalls /\ VendorCmd

SpecLed == InitLed /\ [][NextLed]_vars

\* ------------------------------------------------------------------------
\* Properties of the LED engine
\* ------------------------------------------------------------------------

\* the step is a handle_vendor_cmd call that found the given led-stream
\* page pending
LedStep(o, page) ==
    o.name = "vendor_cmd" /\ o.arg[1] # 0 /\ o.arg[2] = 252 /\ o.arg[3] = page

\* the step is a handle_vendor_cmd call that found a data page pending
DataPageStep(o) ==
    o.name = "vendor_cmd" /\ o.arg[1] # 0 /\ o.arg[2] = 252 /\ o.arg[3] < 7

\* C6: a release that ends a session (at least one data-page write since
\* the engine was Released, then any data pages and commits) leaves the
\* animation-mode field at the value it held just before the first data
\* page of the session, never the 0xFF the engine wrote, and the engine
\* Released.
C6_ReleaseRestoresMode ==
    [][(session = "streaming" /\ LedStep(op', 254))
          => /\ led_effect_mode' = mode_at_entry
             /\ led_effect_mode' # 255
             /\ stream_active' = 0]_vars

\* a session of two data pages was released and the mode is back
C6_Witness ==
    /\ LedStep(op, 254)
    /\ nvendor = 3
    /\ submitted[0] # << >> /\ submitted[95] # << >>
    /\ led_effect_mode = 5
    /\ stream_active = 0

\* C7: once a command has been served, while the engine is Streaming the
\* animation-mode field holds 0xFF;
\* the engine leaves Released exactly on a data-page write (page 0..6),
\* which saves the current mode and writes 0xFF; while Streaming only a
\* release changes the field.
C7_StreamingHoldsSentinel ==
    /\ []((nvendor > 0 /\ stream_active # 0) => led_effect_mode = 255)
    /\ [][/\ (stream_active = 0 /\ stream_active' # 0)
              => (DataPageStep(op') /\ saved_led_effect_mode' = led_effect_mode
                  /\ led_effect_mode' = 255)
          /\ (stream_active = 0 /\ DataPageStep(op')) => stream_active' # 0
          /\ (stream_active # 0 /\ led_effect_mode' # led_effect_mode)
              => LedStep(op', 254)]_vars

\* page 6 opened a session, a commit followed, the sentinel is in place
C7_Witness ==
    /\ stream_active = 1
    /\ LedStep(op, 255)
    /\ submitted[0] = << >>
    /\ led_effect_mode = 255
    /\ saved_led_effect_mode = 5

\* C10: a release found while the engine is Released changes neither the
\* engine mode, the saved value nor the animation-mode field, and is
\* still reported as handled with the pending flag cleared.
C10_ReleaseIdempotent ==
    [][(stream_active = 0 /\ LedStep(op', 254))
          => /\ stream_active' = 0
             /\ saved_led_effect_mode' = saved_led_effect_mode
             /\ led_effect_mode' = led_effect_mode
             /\ ret' = 1
             /\ g_vendor_cmd_buffer'[0] = 0]_vars

\* a release was the first command after power-on: the engine was
\* Released and the saved value (0) differs from the mode, which is kept
C10_Witness ==
    /\ LedStep(op, 254)
    /\ nvendor = 1
    /\ stream_active = 0
    /\ saved_led_effect_mode = 0
    /\ led_effect_mode = 5
    /\ ret = 1

\* ------------------------------------------------------------------------
\* Specification of the whole keyboard layer: connect hook, setup filter
\* and vendor dispatcher with every opcode
\* ------------------------------------------------------------------------

\* << opcode, byte 3, payload seed >>: a data page, release, commit, the
\* undefined pages 7 and 253, patch-info, log-read and two opcodes of the
\* firmware
AllCmds ==
    { << CMD_LED_STREAM, 0, 17 >>, << CMD_LED_STREAM, PAGE_RELEASE, 0 >>,
      << CMD_LED_STREAM, PAGE_COMMIT, 0 >>, << CMD_LED_STREAM, 7, 0 >>,
      << CMD_PATCH_INFO, 0, 0 >>, << CMD_LOG_READ, 0, 0 >>, << 7, 0, 0 >>,
      << CMD_LED_STREAM, 253, 0 >>, << 250, 0, 0 >> }

\* a matching GET_REPORT and a class request to interface 0
FewPkts == { SetupBytes(161, 1, 775, 1, 2), SetupBytes(161, 1, 775, 0, 3) }

Next ==
    \/ nsetup + nvendor < MaxOps /\ UsbConnect
    \/ nsetup + nvendor < MaxOps /\ \E pkt \in FewPkts : KbdHidSetup(pkt)
    \/ nsetup + nvendor < MaxOps /\ \E c \in AllCmds : HostWrite(c[1], c[2], c[3])
    \/ nsetup + nvendor < MaxOps /\ VendorCmd

Spec == InitLed /\ [][Next]_vars

\* C8: the Display Buffer changes only in a led-stream commit; data pages,
\* release, patch-info, log-read, other opcodes, the setup filter and the
\* connect hook leave every byte of it unchanged; after a commit it
\* equals the whole Frame Buffer, all 1968 bytes.
C8_DisplayOnlyByCommit ==
    /\ [][g_led_dma_buf' # g_led_dma_buf => LedStep(op', 255)]_vars
    /\ [](LedStep(op, 255) =>
              /\ DOMAIN g_led_dma_buf = 0..1967
              /\ \A j \in 0..1967 : g_led_dma_buf[j] = g_led_frame_buf[j])

\* a commit after a data page: the display shows the written frame
C8_Witness ==
    /\ LedStep(op, 255)
    /\ g_led_frame_buf # frame0
    /\ g_led_dma_buf = g_led_frame_buf

\* ------------------------------------------------------------------------
\* Specification of one full frame: the six data pages in any order, each
\* once, then the commit
\* ------------------------------------------------------------------------

\* << page, payload seed >>: every data page, page 0 with two payloads
FramePages ==
    { << 0, 17 >>, << 0, 140 >>, << 1, 140 >>, << 2, 17 >>, << 3, 140 >>,
      << 4, 17 >>, << 5, 140 >> }

PageSubmitted(page) == submitted[page * PAGE_KEYS] # << >>

Covered == \A pos \in 0..(MATRIX_LEN - 1) : submitted[pos] # << >>

Committed == LedStep(op, 255)

NextLedFull ==
    \/ /\ ~Committed
       /\ \E c \in FramePages :
             /\ ~PageSubmitted(c[1])
             /\ HostWrite(CMD_LED_STREAM, c[1], c[2])
    \/ /\ ~Committed
       /\ Covered
       /\ HostWrite(CMD_LED_STREAM, PAGE_COMMIT, 0)
    \/ /\ ~Committed
       /\ g_vendor_cmd_buffer[0] # 0
       /\ VendorCmd

SpecLedFull == InitLed /\ [][NextLedFull]_vars

\* the byte eight WS2812 bit-bytes at mem[at..at+7] stand for, MSB first;
\* -1 when one of them is neither the 1-bit nor the 0-bit pattern
DecodeByte(mem, at) ==
    IF \E k \in 0..7 : mem[at + k] \notin {240, 192} THEN -1
    ELSE   (IF mem[at] = 240 THEN 128 ELSE 0)
         + (IF mem[at + 1] = 240 THEN 64 ELSE 0)
         + (IF mem[at + 2] = 240 THEN 32 ELSE 0)
         + (IF mem[at + 3] = 240 THEN 16 ELSE 0)
         + (IF mem[at + 4] = 240 THEN 8 ELSE 0)
         + (IF mem[at + 5] = 240 THEN 4 ELSE 0)
         + (IF mem[at + 6] = 240 THEN 2 ELSE 0)
         + (IF mem[at + 7] = 240 THEN 1 ELSE 0)

\* the << R, G, B >> triple in the 24 bytes of output slot idx: green
\* first, then red, then blue
DecodeLed(mem, idx) ==
    << DecodeByte(mem, idx * 24 + 8), DecodeByte(mem, idx * 24),
       DecodeByte(mem, idx * 24 + 16) >>

\* output slots no logical position maps to
UnmappedSlots ==
    {idx \in 0..81 :
        \A pos \in 0..95 : static_led_pos_tbl[pos] # idx}

\* C5: after data pages covering all 96 logical positions and a commit,
\* the Display Buffer decodes, at the output index of every position whose
\* Position Map entry is below the output count, to the RGB triple
\* submitted for that position, and every output slot no position maps to
\* holds the bytes the Frame Buffer had before the writes.
C5_CommitShowsSubmitted ==
    (Committed /\ Covered) =>
        /\ \A pos \in 0..95 :
              static_led_pos_tbl[pos] < 82 =>
                  DecodeLed(g_led_dma_buf, static_led_pos_tbl[pos])
                      = submitted[pos]
        /\ \A idx \in UnmappedSlots : \A k \in 0..23 :
              g_led_dma_buf[idx * 24 + k] = frame0[idx * 24 + k]

\* a full frame committed with a map that has unmapped output slots and an
\* out-of-range entry other than 0xFF
C5_Witness ==
    /\ Committed
    /\ Covered
    /\ UnmappedSlots # {}
    /\ \E pos \in 0..95 : static_led_pos_tbl[pos] = 200
    /\ g_led_dma_buf # frame0

\* ------------------------------------------------------------------------
\* Specification of the commit's copy running against the display refresh:
\* the SPI DMA started by ws2812_hw_init reads g_led_dma_buf pass after
\* pass while handle_led_stream copies into it
\* ------------------------------------------------------------------------

ScanCmds ==
    { << CMD_LED_STREAM, 0, 17 >>, << CMD_LED_STREAM, 0, 140 >>,
      << CMD_LED_STREAM, PAGE_COMMIT, 0 >> }

CommitPending ==
    g_vendor_cmd_buffer[0] # 0 /\ IsCommit(g_vendor_cmd_buffer)

\* handle_vendor_cmd up to the memcpy of the commit branch
CommitBegin ==
    LET cmd_buf == g_vendor_cmd_buffer
        chk     == charge_check(prev_charging, g_charger_connected,
                                ep2_ready, g_battery_level)
    IN  /\ variant = "kbd"
        /\ commit_pc = "idle"
        /\ CommitPending
        /\ prev_charging' = chk.prev
        /\ ep2_tx' = chk.tx
        /\ seen_charging' = g_charger_connected
        /\ seen_battery' = g_battery_level
        /\ unsent' = Unsent(chk.tx, g_charger_connected)
        /\ UNCHANGED << prev_inited, prev_battery >>
        /\ ep0_tx' = << >>
        /\ log_buf' = log_entry(log_buf, LOG_VENDOR_CMD_ENTRY,
                                << cmd_buf[0], cmd_buf[2] >>)
        /\ commit_pc' = "memcpy"
        /\ copy_pos' = 0
        /\ images' = images \cup {g_led_frame_buf}
        /\ UNCHANGED << variant, nhandled, hist_vars, probe_vars,
                        usb_vars, env_vars, diag, bat_report,
                        g_vendor_cmd_buffer, stream_active,
                        saved_led_effect_mode, led_effect_mode,
                        g_led_frame_buf, g_led_dma_buf, static_led_pos_tbl,
                        session, mode_at_entry, submitted, frame0, scan_pos,
                        scanned, overlapped, rtt_vars, ret, op, nsetup,
                        nvendor >>

\* memcpy(&g_led_dma_buf, &g_led_frame_buf, LED_BUF_SIZE), the next bytes
MemcpyChunk ==
    LET upto == Min(copy_pos + ChunkBytes, LED_BUF_SIZE)
    IN  /\ commit_pc = "memcpy"
        /\ copy_pos < LED_BUF_SIZE
        /\ g_led_dma_buf' =
               [j \in 0..(LED_BUF_SIZE - 1) |->
                   IF j >= copy_pos /\ j < upto THEN g_led_frame_buf[j]
                   ELSE g_led_dma_buf[j]]
        /\ copy_pos' = upto
        /\ UNCHANGED << variant, nhandled, hist_vars, probe_vars,
                        usb_vars, env_vars, diag_vars, bat_report,
                        latch_vars, g_vendor_cmd_buffer, stream_active,
                        saved_led_effect_mode, led_effect_mode,
                        g_led_frame_buf, static_led_pos_tbl, session,
                        mode_at_entry, submitted, frame0, commit_pc,
                        scan_pos, scanned, overlapped, images, rtt_vars,
                        out_vars, nsetup, nvendor >>

\* the commit branch after the memcpy: cmd_buf[0] = 0; return 1
CommitEnd ==
    /\ commit_pc = "memcpy"
    /\ copy_pos = LED_BUF_SIZE
    /\ g_vendor_cmd_buffer' = [g_vendor_cmd_buffer EXCEPT ![0] = 0]
    /\ ret' = 1
    /\ op' = [name |-> "vendor_cmd",
              arg |-> << g_vendor_cmd_buffer[0], g_vendor_cmd_buffer[2],
                         g_vendor_cmd_buffer[3] >>,
              stores |-> MailboxStores(g_vendor_cmd_buffer)]
    /\ commit_pc' = "idle"
    /\ nvendor' = nvendor + 1
    /\ UNCHANGED << variant, nhandled, hist_vars, probe_vars,
                    usb_vars, env_vars, diag_vars, bat_report,
                    latch_vars, stream_active, saved_led_effect_mode,
                    led_effect_mode, g_led_frame_buf, g_led_dma_buf,
                    static_led_pos_tbl, session, mode_at_entry, submitted,
                    frame0, copy_pos, scan_pos, scanned, overlapped, images,
                    rtt_vars, ep0_tx, ep2_tx, nsetup >>

\* the SPI DMA reads the next bytes of g_led_dma_buf
ScanChunk ==
    LET upto == Min(scan_pos + ChunkBytes, LED_BUF_SIZE)
    IN  /\ variant = "kbd"
        /\ scan_pos < LED_BUF_SIZE
        /\ scanned' = [j \in 0..(LED_BUF_SIZE - 1) |->
                          IF j >= scan_pos /\ j < upto THEN g_led_dma_buf[j]
                          ELSE scanned[j]]
        /\ scan_pos' = upto
        /\ overlapped' = (overlapped \/ commit_pc = "memcpy")
        /\ UNCHANGED << variant, nhandled, hist_vars, probe_vars,
                        usb_vars, env_vars, diag_vars, bat_report,
                        latch_vars, g_vendor_cmd_buffer, stream_active,
                        saved_led_effect_mode, led_effect_mode,
                        g_led_frame_buf, g_led_dma_buf, static_led_pos_tbl,
                        session, mode_at_entry, submitted, frame0, commit_pc,
                        copy_pos, images, rtt_vars, out_vars, nsetup,
                        nvendor >>

\* the DMA wraps to the start of the buffer for the next refresh
ScanRestart ==
    /\ variant = "kbd"
    /\ scan_pos = LED_BUF_SIZE
    /\ scan_pos' = 0
    /\ scanned' = [j \in 0..(LED_BUF_SIZE - 1) |-> -1]
    /\ overlapped' = FALSE
    /\ UNCHANGED << variant, nhandled, hist_vars, probe_vars,
                    usb_vars, env_vars, diag_vars, bat_report,
                    latch_vars, g_vendor_cmd_buffer, stream_active,
                    saved_led_effect_mode, led_effect_mode, g_led_frame_buf,
                    g_led_dma_buf, static_led_pos_tbl, session,
                    mode_at_entry, submitted, frame0, commit_pc, copy_pos,
                    images, rtt_vars, out_vars, nsetup, nvendor >>

NextScanout ==
    \/ /\ nvendor < MaxVendorCalls
       /\ commit_pc = "idle"
       /\ \E c \in ScanCmds : HostWrite(c[1], c[2], c[3])
    \/ /\ nvendor < MaxVendorCalls
       /\ commit_pc = "idle"
       /\ ~CommitPending
       /\ VendorCmd
    \/ nvendor < MaxVendorCalls /\ CommitBegin
    \/ MemcpyChunk
    \/ CommitEnd
    \/ ScanChunk
    \/ ScanRestart

InitScanout == InitLed /\ static_led_pos_tbl = PosTbl(1)

SpecScanout == InitScanout /\ [][NextScanout]_vars

\* C9: a display refresh that ran while a commit was copying has read
\* either the whole previous Display Buffer content or the whole new
\* content, never a mixture of old and new bytes.
C9_RefreshSeesWholeImage ==
    (scan_pos = LED_BUF_SIZE /\ overlapped) => scanned \in images

\* ------------------------------------------------------------------------
\* Specification of the encoder: one data page with every channel value
\* ------------------------------------------------------------------------

\* payload seeds that put every value 0..255 into each channel
AllSeeds == 0..255

NextEncode ==
    \/ /\ session = "released"
       /\ g_vendor_cmd_buffer[0] = 0
       /\ \E page \in {0, 5}, seed \in AllSeeds :
             HostWrite(CMD_LED_STREAM, page, seed)
    \/ /\ g_vendor_cmd_buffer[0] # 0
       /\ VendorCmd

SpecEncode == InitLed /\ [][NextEncode]_vars

\* the byte that stands for bit (7 - k) of v
EncodedBit(v, k) == IF (v \div (2 ^ (7 - k))) % 2 = 1 THEN 240 ELSE 192

\* C11: the encoder writes for a channel value v eight bytes, byte k being
\* 0xF0 if bit (7-k) of v is 1 and 0xC0 if it is 0; a data page puts, for
\* every mapped position page*18+i, green at bytes 0..7, red at 8..15 and
\* blue at 16..23 of the slot at outputIndex*24 of the Frame Buffer, with
\* r, g, b taken from payload bytes 3i, 3i+1, 3i+2.
C11_EncodedSlotLayout ==
    DataPageStep(op) =>
        \A i \in 0..17 :
            LET pos == op.arg[3] * 18 + i
            IN  (pos < 96 /\ static_led_pos_tbl[pos] < 82) =>
                    LET at == static_led_pos_tbl[pos] * 24
                        r  == g_vendor_cmd_buffer[4 + 3 * i]
                        g  == g_vendor_cmd_buffer[4 + 3 * i + 1]
                        b  == g_vendor_cmd_buffer[4 + 3 * i + 2]
                    IN  \A k \in 0..7 :
                            /\ g_led_frame_buf[at + k] = EncodedBit(g, k)
                            /\ g_led_frame_buf[at + 8 + k] = EncodedBit(r, k)
                            /\ g_led_frame_buf[at + 16 + k] = EncodedBit(b, k)

\* page 0 written with red = 1 at the mapped position 0: only the last of
\* the eight red bytes is the 1-bit pattern
C11_Witness ==
    /\ DataPageStep(op)
    /\ op.arg[3] = 0
    /\ static_led_pos_tbl[0] < 82
    /\ g_vendor_cmd_buffer[4] = 1
    /\ g_led_frame_buf[static_led_pos_tbl[0] * 24 + 15] = 240
    /\ g_led_frame_buf[static_led_pos_tbl[0] * 24 + 8] = 192

\* ------------------------------------------------------------------------
\* Dongle: change-detection hook on rf_packet_dispatch
\* ------------------------------------------------------------------------

\* variant of rf_changed that compares the charging value only
rf_changed_charging(inited, pbat, pchg, bat, chg) ==
    inited = 0 \/ chg # pchg

\* handle_rf_dispatch: !prev_inited || bat != prev_battery
\*                                  || chg != prev_charging
rf_changed(inited, pbat, pchg, bat, chg) ==
    inited = 0 \/ bat # pbat \/ chg # pchg

\* dongle: void handle_rf_dispatch(void)
RfDispatch ==
    LET bat     == g_battery_level
        chg     == g_charger_connected
        changed == rf_changed(prev_inited, prev_battery, prev_charging,
                              bat, chg)
    IN  /\ variant = "dongle"
        /\ seen_battery' = bat
        /\ seen_charging' = chg
        /\ prev_inited' = IF changed THEN 1 ELSE prev_inited
        /\ prev_battery' = IF changed THEN bat ELSE prev_battery
        /\ prev_charging' = IF changed THEN chg ELSE prev_charging
        /\ ep2_tx' = IF changed THEN << << 7, bat, chg >> >> ELSE << >>
        /\ ep0_tx' = << >>
        /\ ret' = 0
        /\ op' = [name |-> "rf_dispatch", arg |-> << >>]
        /\ nvendor' = nvendor + 1
        /\ UNCHANGED << variant, nhandled, hist_vars, probe_vars,
                        usb_vars, env_vars, diag_vars, bat_report,
                        unsent, g_vendor_cmd_buffer, led_vars,
                        rtt_vars, nsetup >>

\* ------------------------------------------------------------------------
\* Specification of the battery notifications: the periodic hooks of both
\* variants while the battery state and the interrupt-IN endpoint change
\* ------------------------------------------------------------------------

\* power-on with the charger plugged or not and the endpoint idle or busy
InitCharge ==
    /\ variant \in {"kbd", "dongle"}
    /\ connected = FALSE
    /\ g_if1_report_desc = OrigRdesc(5)
    /\ extended_rdesc = ZeroBytes(EXTENDED_RDESC_LEN)
    /\ wlen = [f \in WLEN_FIELDS |-> LE16(IF1_RDESC_LEN)]
    /\ g_battery_level = 87
    /\ g_charger_connected \in Charging
    /\ ep2_ready \in {0, 1}
    /\ InitStatics
    /\ InitLedEngine
    /\ static_led_pos_tbl = PosTbl(1)
    /\ led_effect_mode = 1
    /\ InitOut

NextCharge ==
    \/ \E level \in BatteryLevels, charging \in Charging, ready \in {0, 1} :
          EnvChange(level, charging, ready)
    \/ nvendor < MaxVendorCalls /\ HostWrite(CMD_PATCH_INFO, 0, 0)
    \/ nvendor < MaxVendorCalls /\ VendorCmd
    \/ nvendor < MaxVendorCalls /\ RfDispatch

SpecCharge == InitCharge /\ [][NextCharge]_vars

\* a step of handle_vendor_cmd
VendorStep == variant = "kbd" /\ nvendor' = nvendor + 1

\* the Input report carrying the battery state the handler read
BatteryInput == << 7, g_battery_level, g_charger_connected >>

\* C12: on every handle_vendor_cmd invocation after the first with the
\* interrupt-IN endpoint idle, one Input report [7, level, charging] is
\* pushed if the charging value read differs from the one read on the
\* previous invocation and none if it is the same, whether or not a
\* command is pending.
C12_OnePushPerToggle ==
    [][(VendorStep /\ nvendor >= 1 /\ ep2_ready # 0) =>
           ep2_tx' = IF g_charger_connected # seen_charging
                     THEN << BatteryInput >> ELSE << >>]_vars

\* a toggle pushed by an invocation that found no command pending
C12_Witness ==
    /\ op.name = "vendor_cmd"
    /\ op.arg[1] = 0
    /\ nvendor >= 2
    /\ ep2_ready # 0
    /\ ep2_tx = << BatteryInput >>

\* C13: the first periodic-hook invocation after power-on with the
\* endpoint idle pushes an Input report, whichever charging value it
\* reads, on the keyboard and on the dongle.
C13_FirstInvocationPushes ==
    [][(nvendor = 0 /\ nvendor' = 1 /\ ep2_ready # 0) =>
           ep2_tx' = << BatteryInput >>]_vars

\* C14: a charging change read while the interrupt-IN endpoint is busy is
\* not pushed on that invocation, and a later invocation that finds the
\* endpoint idle pushes the report with the new value although the
\* charging value has not changed again.
C14_BusyChangeNotLost ==
    [][VendorStep =>
           /\ ep2_ready = 0 => ep2_tx' = << >>
           /\ (unsent /\ g_charger_connected = seen_charging
                   /\ ep2_ready # 0) => ep2_tx' = << BatteryInput >>]_vars

\* ------------------------------------------------------------------------
\* Specification of the interrupt-IN pushes: every handler that can start
\* one, in both variants, with the endpoint idle or busy
\* ------------------------------------------------------------------------

NextPush ==
    \/ \E charging \in Charging, ready \in {0, 1} :
          EnvChange(g_battery_level, charging, ready)
    \/ nsetup + nvendor < MaxOps /\ UsbConnect
    \/ nsetup + nvendor < MaxOps /\ UsbInit
    \/ nsetup + nvendor < MaxOps
          /\ KbdHidSetup(SetupBytes(161, 1, 775, 1, 8))
    \/ nsetup + nvendor < MaxOps
          /\ DongleHidSetup(SetupBytes(161, 1, 775, 1, 8))
    \/ nsetup + nvendor < MaxOps /\ VendorCmd
    \/ nsetup + nvendor < MaxOps /\ RfDispatch

SpecPush == InitCharge /\ [][NextPush]_vars

\* C15: no Input-report transmission is started on the interrupt-IN
\* endpoint while it is busy, by the setup filter, the vendor dispatcher
\* or the dongle's change-detection hook, in both variants.
C15_NoPushWhileBusy == ep2_tx # << >> => ep2_ready # 0

\* C16: a matched GET_REPORT with the interrupt-IN endpoint idle starts,
\* besides the one control-endpoint response, exactly one interrupt-IN
\* transmission of 3 bytes [7, level, charging], the same bytes as the
\* untruncated Feature report of that invocation, whatever the requested
\* length.
C16_InputReportWithGetReport ==
    (op.name = "hid_setup" /\ MatchesBatteryRequest(op.arg)
         /\ ep2_ready # 0) =>
        /\ Len(ep0_tx) = 1
        /\ Len(ep2_tx) = 1
        /\ Len(ep2_tx[1]) = 3
        /\ ep2_tx[1] = CurrentReport
        /\ ep2_tx[1] = << bat_report[0], bat_report[1], bat_report[2] >>
        /\ ep0_tx[1] = SubSeq(ep2_tx[1], 1, Len(ep0_tx[1]))

\* the keyboard answered a request for 2 bytes and pushed 3 bytes
C16_Witness ==
    /\ variant = "kbd"
    /\ op.name = "hid_setup" /\ MatchesBatteryRequest(op.arg)
    /\ RequestedLength(op.arg) = 2
    /\ ep2_ready # 0
    /\ g_charger_connected = 1
    /\ Len(ep0_tx[1]) = 2
    /\ ep2_tx = << << 7, g_battery_level, 1 >> >>

\* ------------------------------------------------------------------------
\* Properties of the vendor dispatcher
\* ------------------------------------------------------------------------

\* the command the last handle_vendor_cmd invocation found: pending flag,
\* opcode, page byte
VendorDone == op.name = "vendor_cmd"

\* pending patch-info, log-read, or led-stream with page 0..6, 0xFE, 0xFF
DefinedCommand(a) ==
    /\ a[1] # 0
    /\ \/ a[2] = 251
       \/ a[2] = 253
       \/ a[2] = 252 /\ (a[3] <= 6 \/ a[3] = 254 \/ a[3] = 255)

\* C17: when handle_vendor_cmd returns handled (patch-info, log-read,
\* led-stream page 0..6, release, commit) the pending flag is 0 and the
\* store that cleared it came after every other store to the mailbox; an
\* invocation that returns not-handled leaves the flag as it found it.
C17_FlagClearedLast ==
    VendorDone =>
        /\ (ret # 0) <=> DefinedCommand(op.arg)
        /\ ret # 0 =>
              /\ g_vendor_cmd_buffer[0] = 0
              /\ Len(op.stores) >= 1
              /\ \A k \in 1..Len(op.stores) :
                    (op.stores[k] = 0) <=> (k = Len(op.stores))
        /\ ret = 0 =>
              /\ g_vendor_cmd_buffer[0] = op.arg[1]
              /\ \A k \in 1..Len(op.stores) : op.stores[k] # 0

\* a log-read was handled: response header written, flag cleared
C17_Witness ==
    /\ VendorDone
    /\ op.arg[2] = 253
    /\ ret = 1
    /\ g_vendor_cmd_buffer[0] = 0
    /\ g_vendor_cmd_buffer[7] = 2
    /\ Len(op.stores) = 62

\* the LED engine mode, the animation-mode field and both buffers
LedEngine ==
    << stream_active, saved_led_effect_mode, led_effect_mode,
       g_led_frame_buf, g_led_dma_buf >>

\* the command in the mailbox: pending flag, opcode, page byte
MailboxCommand ==
    << g_vendor_cmd_buffer[0], g_vendor_cmd_buffer[2],
       g_vendor_cmd_buffer[3] >>

\* C18: for a pending command whose opcode is none of 0xFB, 0xFC, 0xFD,
\* and for a led-stream command whose page is none of 0..6, 0xFE, 0xFF,
\* handle_vendor_cmd returns not-handled and leaves every mailbox byte,
\* the LED engine mode, the animation-mode field and the Frame and
\* Display Buffers unchanged.
C18_UndefinedPassThrough ==
    [][(VendorStep /\ g_vendor_cmd_buffer[0] # 0
            /\ ~DefinedCommand(MailboxCommand)) =>
           /\ ret' = 0
           /\ g_vendor_cmd_buffer' = g_vendor_cmd_buffer
           /\ LedEngine' = LedEngine]_vars

\* a led-stream command with page 253 was passed through while streaming
C18_Witness ==
    /\ VendorDone
    /\ op.arg = << 1, 252, 253 >>
    /\ ret = 0
    /\ g_vendor_cmd_buffer[0] = 1
    /\ stream_active = 1

\* C19: a handled command leaves the pending flag unset, only a host write
\* sets it, and every handle_vendor_cmd invocation that finds it unset
\* returns not-handled and changes nothing in the mailbox, the LogRing,
\* the LED engine or the buffers, whatever opcode the mailbox still holds.
C19_ConsumedOnce ==
    /\ [](VendorDone /\ ret # 0 => g_vendor_cmd_buffer[0] = 0)
    /\ [][(g_vendor_cmd_buffer[0] = 0 /\ g_vendor_cmd_buffer'[0] # 0) =>
              op'.name = "host_write"]_vars
    /\ [][(VendorStep /\ g_vendor_cmd_buffer[0] = 0) =>
              /\ ret' = 0
              /\ g_vendor_cmd_buffer' = g_vendor_cmd_buffer
              /\ log_buf' = log_buf
              /\ LedEngine' = LedEngine]_vars

\* the second invocation after one commit: the opcode is still 0xFC, the
\* command was not run again
C19_Witness ==
    /\ VendorDone
    /\ nvendor >= 2
    /\ op.arg = << 0, 252, 255 >>
    /\ ret = 0
    /\ log_buf.count = 3

\* the LogRing after one record {type, a, b} was appended to lb
WithRecord(lb, type, a, b) ==
    [head  |-> (lb.head + 3) % 512,
     count |-> IF lb.count + 3 <= 512 THEN lb.count + 3 ELSE 512,
     data  |-> [i \in 0..511 |->
                   IF i = lb.head THEN type
                   ELSE IF i = (lb.head + 1) % 512 THEN a
                   ELSE IF i = (lb.head + 2) % 512 THEN b
                   ELSE lb.data[i]]]

\* C20: a log-read command leaves LogRing head, count and data unchanged;
\* every dispatched patch-info and led-stream command appends exactly one
\* record {0x03, pending-flag byte, opcode}.
C20_LogReadNotLogged ==
    [][(VendorStep /\ g_vendor_cmd_buffer[0] # 0) =>
           /\ g_vendor_cmd_buffer[2] = 253 => log_buf' = log_buf
           /\ g_vendor_cmd_buffer[2] \in {251, 252} =>
                  log_buf' = WithRecord(log_buf, 3, g_vendor_cmd_buffer[0],
                                        g_vendor_cmd_buffer[2])]_vars

\* a log-read handled after a patch-info: the ring holds the one record of
\* the patch-info and the response reports 3 bytes
C20_Witness ==
    /\ VendorDone
    /\ op.arg[2] = 253
    /\ ret = 1
    /\ log_buf.count = 3
    /\ log_buf.data[0] = 3 /\ log_buf.data[2] = 251
    /\ g_vendor_cmd_buffer[3] = 3


\* ------------------------------------------------------------------------
\* Specification of the debug ring: log_entry appends, then log-read pages.
\* log_buf lies in the patch's .bss in PATCH_SRAM, which no startup code
\* clears (handlers.c:157) and which nothing else initialises, so the ring
\* starts with whatever the memory holds at power-on
\* ------------------------------------------------------------------------

MaxLogBytes == 1200

\* bytes found in memory that was never written
SramPattern(n) == [k \in 0..(n - 1) |-> (k * 7 + 165) % 256]

PowerOnLog ==
    { log_buf_zero,
      [head |-> 0, count |-> 0, data |-> SramPattern(LOG_BUF_SIZE)],
      [head |-> 5, count |-> 3, data |-> SramPattern(LOG_BUF_SIZE)],
      [head |-> 600, count |-> 700, data |-> SramPattern(LOG_BUF_SIZE)] }

\* the data[] indices of log_entry's stores: data[head] first, then head
\* steps modulo LOG_BUF_SIZE before each further store
log_indices(lb, n) ==
    [k \in 1..n |-> IF k = 1 THEN lb.head
                    ELSE (lb.head + k - 1) % LOG_BUF_SIZE]

\* the byte a caller appends as the q-th byte of the stream
LogByte(q) == (q * 11 + 3) % 256

LogLens == {0, 1, 255}
LogPages == (0..10) \cup {255}
LogReadAt == {0, 2, 57, 511, 512, 513, 600, 1200}

LastBytes(s, n) == IF Len(s) <= n THEN s ELSE SubSeq(s, Len(s) - n + 1, Len(s))

\* one call log_entry(type, payload, len)
LogEntry(len) ==
    LET type    == LogByte(log_total)
        payload == [k \in 1..len |-> LogByte(log_total + k)]
    IN  /\ variant = "kbd"
        /\ log_buf' = log_entry(log_buf, type, payload)
        /\ log_total' = log_total + 1 + len
        /\ recent' = LastBytes(recent \o << type >> \o payload, LOG_BUF_SIZE)
        /\ log_idx' = log_indices(log_buf, 1 + len)
        /\ ep0_tx' = << >>
        /\ ep2_tx' = << >>
        /\ ret' = 0
        /\ op' = [name |-> "log_entry", arg |-> << type, len >>]
        /\ UNCHANGED << variant, nhandled, probe_vars, usb_vars, env_vars, diag,
                        bat_report, latch_vars, g_vendor_cmd_buffer,
                        led_vars, rtt_vars, nsetup, nvendor >>

InitLog ==
    /\ variant = "kbd"
    /\ connected = FALSE
    /\ g_if1_report_desc = OrigRdesc(5)
    /\ extended_rdesc = ZeroBytes(EXTENDED_RDESC_LEN)
    /\ wlen = [f \in WLEN_FIELDS |-> LE16(IF1_RDESC_LEN)]
    /\ g_battery_level = 87
    /\ g_charger_connected = 0
    /\ ep2_ready = 1
    /\ diag = diag_zero
    /\ log_buf \in PowerOnLog
    /\ bat_report = ZeroBytes(4)
    /\ prev_charging = 0
    /\ prev_inited = 0
    /\ prev_battery = 0
    /\ seen_charging = -1
    /\ seen_battery = -1
    /\ unsent = FALSE
    /\ rtt_cb = rtt_cb_zero
    /\ rtt_buf = ZeroBytes(RTT_BUF_SIZE)
    /\ g_vendor_cmd_buffer = ZeroBytes(CMD_BUF_LEN)
    /\ InitLedEngine
    /\ static_led_pos_tbl = PosTbl(1)
    /\ led_effect_mode = 1
    /\ InitOut

NextLog ==
    \/ \E len \in LogLens :
          /\ log_total < MaxLogBytes
          /\ nvendor = 0
          /\ g_vendor_cmd_buffer[0] = 0
          /\ LogEntry(len)
    \/ \E p \in LogPages :
          /\ log_total \in LogReadAt
          /\ nvendor = 0
          /\ HostWrite(CMD_LOG_READ, p, 0)
    \/ nvendor = 0 /\ g_vendor_cmd_buffer[0] # 0 /\ VendorCmd

SpecLog == InitLog /\ [][NextLog]_vars

\* a log-read command has just been served; op.arg[3] is its page number
LogReadDone ==
    op.name = "vendor_cmd" /\ op.arg[2] = 253 /\ op.arg[1] # 0 /\ ret = 1

\* C21: for every page number and every state of the ring, the log-read
\* response is the header {count low, count high, head low, head high,
\* 0x02} followed by 56 slice bytes; slice byte i is ring data[(P*56 + i)
\* mod 512] when position P*56 + i lies before the logical end of the
\* written data (count), and 0 beyond it
C21_LogReadSlice ==
    LogReadDone =>
        /\ g_vendor_cmd_buffer[3] = log_buf.count % 256
        /\ g_vendor_cmd_buffer[4] = log_buf.count \div 256
        /\ g_vendor_cmd_buffer[5] = log_buf.head % 256
        /\ g_vendor_cmd_buffer[6] = log_buf.head \div 256
        /\ g_vendor_cmd_buffer[7] = 2
        /\ \A i \in 0..55 :
              g_vendor_cmd_buffer[8 + i] =
                  IF op.arg[3] * 56 + i < log_buf.count
                  THEN log_buf.data[(op.arg[3] * 56 + i) % 512]
                  ELSE 0

\* C22: after appends totalling T bytes count = min(T, 512) and head =
\* T mod 512; count never exceeds 512, head stays below 512, every store
\* of an append lands at an index in 0..511, and the ring holds exactly
\* the newest min(T, 512) bytes, so a full ring loses its oldest bytes
C22_RingAccounting ==
    log_total > 0 =>
    /\ log_buf.count = (IF log_total < 512 THEN log_total ELSE 512)
    /\ log_buf.head = log_total % 512
    /\ log_buf.count <= 512
    /\ log_buf.head < 512
    /\ \A k \in 1..Len(log_idx) : log_idx[k] \in 0..511
    /\ \A k \in 1..Len(recent) :
          log_buf.data[(log_total + 512 - Len(recent) + k - 1) % 512]
              = recent[k]

\* C23: with no append between the page reads, the slices of pages 0..9
\* with the reported head and count give the reader the most recent
\* min(T, 512) bytes in write order: the reported count is min(T, 512),
\* and the byte written k-th of them is found at ring position
\* (head - count + k - 1) mod 512 in the slice of the page covering it
C23_PagesReconstructRecent ==
    (LogReadDone /\ op.arg[3] \in 0..9) =>
        LET m    == IF log_total < 512 THEN log_total ELSE 512
            cnt  == g_vendor_cmd_buffer[3] + 256 * g_vendor_cmd_buffer[4]
            head == g_vendor_cmd_buffer[5] + 256 * g_vendor_cmd_buffer[6]
        IN  /\ cnt = m
            /\ Len(recent) = m
            /\ \A i \in 0..55 :
                  LET q == op.arg[3] * 56 + i
                      k == ((q + 1024 - head + cnt) % 512) + 1
                  IN  (q < 512 /\ k <= m) =>
                          g_vendor_cmd_buffer[8 + i] = recent[k]


\* ------------------------------------------------------------------------
\* Telemetry ring (TelemetryRing): rtt_emit and rtt_init store by store,
\* and the debug probe that reads the same memory over SWD
\* ------------------------------------------------------------------------

MaxEmits == 6

\* the tags battery_monitor_before_hook emits, in its order
HookTags == << 1, 2, 3, 4, 5, 16 >>

HookTag(n) == HookTags[(n % 6) + 1]

\* the firmware value passed with the n-th rtt_emit call
HookVal(n) == 16909060 + n * 65793

\* the record bytes: tag, then val least significant byte first
rtt_rec(tag, val) ==
    << tag, val % 256, (val \div 256) % 256, (val \div 65536) % 256,
       (val \div 16777216) % 256 >>

\* variant of rtt_fits that counts the free space without the byte that
\* keeps wr_off off rd_off
rtt_fits_offbyone(wr, rd) ==
    LET avail == IF wr >= rd THEN RTT_BUF_SIZE - wr + rd ELSE rd - wr
    IN  avail < 0 \/ avail >= 5

\* variant of rtt_fits without the check of the free space
rtt_fits_always(wr, rd) == TRUE

\* the free-space check of rtt_emit; avail is a uint32_t, so a difference
\* below zero is a huge number and passes
rtt_fits(wr, rd) ==
    LET avail == IF wr >= rd THEN RTT_BUF_SIZE - 1 - wr + rd ELSE rd - wr - 1
    IN  avail < 0 \/ avail >= 5

\* variant of rtt_emit_step whose wr_off follows every byte store
rtt_emit_step_eager(cb, buf, pc, wr, rec) ==
    IF pc < 5
    THEN [cb  |-> [cb EXCEPT !.wr_off = (wr + 1) % RTT_BUF_SIZE],
          buf |-> Store(buf, wr, rec[pc + 1]),
          wr  |-> (wr + 1) % RTT_BUF_SIZE]
    ELSE [cb |-> [cb EXCEPT !.wr_off = wr], buf |-> buf, wr |-> wr]

\* one store of rtt_emit after the check: for pc in 0..4 the byte store
\* rtt_buf[wr] = rec[pc] and the step of the local wr, for pc = 5 the
\* store rtt_cb.up[0].wr_off = wr
rtt_emit_step(cb, buf, pc, wr, rec) ==
    IF pc < 5
    THEN [cb  |-> cb,
          buf |-> Store(buf, wr, rec[pc + 1]),
          wr  |-> (wr + 1) % RTT_BUF_SIZE]
    ELSE [cb |-> [cb EXCEPT !.wr_off = wr], buf |-> buf, wr |-> wr]

RECURSIVE rtt_emit_from(_, _, _, _, _)
rtt_emit_from(cb, buf, pc, wr, rec) ==
    LET s == rtt_emit_step(cb, buf, pc, wr, rec)
    IN  IF pc = 5 THEN [cb |-> s.cb, buf |-> s.buf]
        ELSE rtt_emit_from(s.cb, s.buf, pc + 1, s.wr, rec)

\* a whole call rtt_emit(tag, val)
rtt_emit(cb, buf, tag, val) ==
    IF rtt_fits(cb.wr_off, cb.rd_off)
    THEN rtt_emit_from(cb, buf, 0, cb.wr_off, rtt_rec(tag, val))
    ELSE [cb |-> cb, buf |-> buf]

\* rtt_emit up to its first store
EmitBegin ==
    /\ variant = "kbd"
    /\ emit_pc = -1
    /\ init_pc = 0
    /\ rtt_calls' = rtt_calls + 1
    /\ emit_rec' = << HookTag(rtt_calls), HookVal(rtt_calls) >>
    /\ emit_wr' = rtt_cb.wr_off
    /\ emit_pc' = IF rtt_fits(rtt_cb.wr_off, rtt_cb.rd_off) THEN 0 ELSE -1
    /\ ep0_tx' = << >>
    /\ ep2_tx' = << >>
    /\ ret' = 0
    /\ op' = [name |-> "rtt_emit",
              arg |-> << HookTag(rtt_calls), HookVal(rtt_calls) >>]
    /\ UNCHANGED << variant, nhandled, hist_vars, swd_vars, init_pc, published, consumed,
                    usb_vars, env_vars, diag_vars, bat_report, latch_vars,
                    g_vendor_cmd_buffer, led_vars, rtt_vars, nsetup,
                    nvendor >>

\* the next store of the rtt_emit call in progress
EmitStep ==
    LET s == rtt_emit_step(rtt_cb, rtt_buf, emit_pc, emit_wr,
                           rtt_rec(emit_rec[1], emit_rec[2]))
    IN  /\ emit_pc \in 0..5
        /\ rtt_cb' = s.cb
        /\ rtt_buf' = s.buf
        /\ emit_wr' = s.wr
        /\ emit_pc' = IF emit_pc = 5 THEN -1 ELSE emit_pc + 1
        /\ published' = IF emit_pc = 5 THEN Append(published, emit_rec)
                        ELSE published
        /\ UNCHANGED << variant, nhandled, hist_vars, swd_vars, emit_rec, init_pc, rtt_calls,
                        consumed, usb_vars, env_vars, diag_vars, bat_report,
                        latch_vars, g_vendor_cmd_buffer, led_vars, out_vars,
                        nsetup, nvendor >>

\* the probe takes k unread bytes of a control block it finds valid and
\* advances rd_off by k
ProbeRead(k) ==
    LET wr     == rtt_cb.wr_off
        rd     == rtt_cb.rd_off
        unread == (wr + RTT_BUF_SIZE - rd) % RTT_BUF_SIZE
    IN  /\ rtt_cb.id = RTT_MAGIC
        /\ wr < RTT_BUF_SIZE
        /\ rd < RTT_BUF_SIZE
        /\ k >= 1
        /\ k <= unread
        /\ rtt_cb' = [rtt_cb EXCEPT !.rd_off = (rd + k) % RTT_BUF_SIZE]
        /\ consumed' = consumed + k
        /\ UNCHANGED << variant, nhandled, hist_vars, swd_vars, emit_pc, emit_wr, emit_rec,
                        init_pc, rtt_calls, published, usb_vars, env_vars,
                        diag_vars, bat_report, latch_vars,
                        g_vendor_cmd_buffer, led_vars, rtt_buf, out_vars,
                        nsetup, nvendor >>

RECURSIVE EmitCalls(_, _, _)
\* the calls rtt_emit(HookTag(100 + j), HookVal(100 + j)) for j = lo..hi,
\* one after the other, with no probe reading
EmitCalls(r, lo, hi) ==
    IF lo > hi THEN r
    ELSE IF lo = hi
    THEN rtt_emit(r.cb, r.buf, HookTag(100 + lo), HookVal(100 + lo))
    ELSE LET mid  == (lo + hi) \div 2
             left == EmitCalls(r, lo, mid)
         IN  \* wr_off is below RTT_BUF_SIZE after rtt_init
             CASE left.cb.wr_off \in 0..(RTT_BUF_SIZE - 1) ->
                      EmitCalls(left, mid + 1, hi)

\* the ring after rtt_init and n rtt_emit calls that no probe has read
EmitRun(n) ==
    EmitCalls([cb |-> rtt_init_cb, buf |-> ZeroBytes(RTT_BUF_SIZE)], 1, n)

PreFills == {0, 49}
ProbeChunks == {7}

InitRtt ==
    /\ variant = "kbd"
    /\ connected = TRUE
    /\ g_if1_report_desc = OrigRdesc(5)
    /\ extended_rdesc = RebuildExtendedRdesc(g_if1_report_desc)
    /\ wlen = PatchWDescriptorLength([f \in WLEN_FIELDS |->
                                         LE16(IF1_RDESC_LEN)])
    /\ g_battery_level = 87
    /\ g_charger_connected = 0
    /\ ep2_ready = 1
    /\ diag = diag_zero
    /\ log_buf = log_entry(log_buf_zero, LOG_USB_CONNECT, << >>)
    /\ bat_report = ZeroBytes(4)
    /\ prev_charging = 0
    /\ prev_inited = 0
    /\ prev_battery = 0
    /\ seen_charging = -1
    /\ seen_battery = -1
    /\ unsent = FALSE
    /\ \E n \in PreFills :
          /\ rtt_cb = EmitRun(n).cb
          /\ rtt_buf = EmitRun(n).buf
          /\ published = [j \in 1..n |->
                             << HookTag(100 + j), HookVal(100 + j) >>]
    /\ g_vendor_cmd_buffer = ZeroBytes(CMD_BUF_LEN)
    /\ InitLedEngine
    /\ static_led_pos_tbl = PosTbl(1)
    /\ led_effect_mode = 1
    /\ nhandled = 0
    /\ log_total = 0
    /\ recent = << >>
    /\ log_idx = << >>
    /\ emit_pc = -1
    /\ emit_wr = 0
    /\ emit_rec = << >>
    /\ init_pc = 0
    /\ rtt_calls = 0
    /\ consumed = 0
    /\ pr_pc = 0
    /\ pr_wr = 0
    /\ pr_rd = 0
    /\ pr_bytes = << >>
    /\ ep0_tx = << >>
    /\ ep2_tx = << >>
    /\ ret = 0
    /\ op = [name |-> "usb_connect", arg |-> << >>]
    /\ nsetup = 1
    /\ nvendor = 0

Unread == (rtt_cb.wr_off + 256 - rtt_cb.rd_off) % 256

NextRtt ==
    \/ rtt_calls < MaxEmits /\ EmitBegin
    \/ EmitStep
    \/ \E k \in ProbeChunks \cup {Unread} : ProbeRead(k)

SpecRtt == InitRtt /\ [][NextRtt]_vars

\* byte q of the stream of published records: the tag, then the value's
\* four bytes from the least significant up
StreamByte(q) ==
    LET r == published[(q \div 5) + 1]
    IN  CASE q % 5 = 0 -> r[1]
          [] q % 5 = 1 -> r[2] % 256
          [] q % 5 = 2 -> (r[2] \div 256) % 256
          [] q % 5 = 3 -> (r[2] \div 65536) % 256
          [] q % 5 = 4 -> (r[2] \div 16777216) % 256

\* C24: in every interleaving of rtt_emit with the probe, the bytes
\* between the read offset and the writer offset the probe can see are
\* exactly the bytes of completely written records it has not taken yet:
\* the writer offset moves once per record, after the record's five bytes
\* are in the buffer, and never covers a byte not yet written
C24_PublishedAfterWritten ==
    /\ Unread = 5 * Len(published) - consumed
    /\ \A i \in 0..(Unread - 1) :
          rtt_buf[(rtt_cb.rd_off + i) % 256] = StreamByte(consumed + i)

C24_Witness ==
    /\ emit_pc \in 1..4
    /\ consumed > 0
    /\ rtt_cb.wr_off < rtt_cb.rd_off

\* the free bytes an rtt_emit call finds
FreeBytes == 255 - Unread

\* C25: an rtt_emit call that finds fewer than 5 free bytes returns with
\* the writer offset and every buffer byte unchanged; a call that finds 5
\* or more stores exactly 5 bytes, at the 5 positions from the writer
\* offset on, and then advances the writer offset by 5 modulo 256; no
\* step of a call stores into the unread region between the read offset
\* and the writer offset, whatever the probe does in between
C25_DropOrFiveBytes ==
    [][ /\ (emit_pc = -1 /\ rtt_calls' # rtt_calls /\ FreeBytes < 5) =>
              /\ emit_pc' = -1
              /\ rtt_cb' = rtt_cb
              /\ rtt_buf' = rtt_buf
        /\ (emit_pc = -1 /\ rtt_calls' # rtt_calls /\ FreeBytes >= 5) =>
              /\ emit_pc' = 0
              /\ rtt_cb' = rtt_cb
              /\ rtt_buf' = rtt_buf
        /\ (emit_pc \in 0..4 /\ emit_pc' # emit_pc) =>
              /\ emit_pc' = emit_pc + 1
              /\ rtt_cb'.wr_off = rtt_cb.wr_off
              /\ \A j \in 0..255 :
                    j # (rtt_cb.wr_off + emit_pc) % 256 =>
                        rtt_buf'[j] = rtt_buf[j]
        /\ (emit_pc = 5 /\ emit_pc' # emit_pc) =>
              /\ emit_pc' = -1
              /\ rtt_cb'.wr_off = (rtt_cb.wr_off + 5) % 256
              /\ rtt_buf' = rtt_buf
        /\ \A i \in 0..(Unread - 1) :
              rtt_buf'[(rtt_cb.rd_off + i) % 256]
                  = rtt_buf[(rtt_cb.rd_off + i) % 256]
      ]_vars

\* a call has been dropped after the probe had read
C25_Witness ==
    /\ emit_pc = -1
    /\ op.name = "rtt_emit"
    /\ consumed > 0
    /\ Len(published) > 0
    /\ published[Len(published)] # op.arg

\* C26: once the ring is initialised the writer offset stays below 256
\* and never moves onto or past the read offset: the unread bytes are the
\* published bytes not yet taken, at most 255 of them, and the two
\* offsets are equal only when nothing is unread
C26_WriterBehindReader ==
    /\ rtt_cb.wr_off < 256
    /\ rtt_cb.rd_off < 256
    /\ 5 * Len(published) - consumed <= 255
    /\ 5 * Len(published) - consumed >= 0
    /\ (rtt_cb.wr_off = rtt_cb.rd_off) <=> (5 * Len(published) = consumed)

C26_Witness ==
    /\ 5 * Len(published) - consumed = 255
    /\ rtt_calls > 0
    /\ emit_pc = -1
    /\ op.name = "rtt_emit"

\* ------------------------------------------------------------------------
\* Specification of rtt_init running inside handle_usb_connect, store by
\* store, with the probe reading in between
\* ------------------------------------------------------------------------

\* the fields of rtt_cb behind id[16], in the order of the struct
RttFields ==
    << "max_up", "max_down", "name", "buf", "size", "wr_off", "rd_off",
       "flags" >>

\* the fields in the order rtt_init assigns them
RttSetOrder ==
    << "name", "buf", "size", "wr_off", "rd_off", "flags", "max_up",
       "max_down" >>

INIT_LAST == 50

\* variant of rtt_init_step that writes the signature right after the
\* zeroing, before the fields are set
rtt_init_step_magic_first(cb, pc) ==
    CASE pc \in 1..16  -> [cb EXCEPT !.id[pc] = 0]
      [] pc \in 17..24 ->
             [cb EXCEPT ![RttFields[pc - 16]] = rtt_cb_zero[RttFields[pc - 16]]]
      [] pc = 25 -> cb
      [] pc \in 26..41 -> [cb EXCEPT !.id[pc - 25] = RTT_MAGIC[pc - 25]]
      [] pc = 42 -> cb
      [] pc \in 43..50 ->
             [cb EXCEPT ![RttSetOrder[pc - 42]] =
                            rtt_init_cb[RttSetOrder[pc - 42]]]

\* the control block after the pc-th store of rtt_init: 1..16 zero id[],
\* 17..24 zero the fields behind it (the loop over sizeof(rtt_cb)), 25
\* the loop that zeroes rtt_buf, 26..33 the field assignments, 34 the dsb
\* barrier, 35..50 the sixteen volatile stores of the signature
rtt_init_step(cb, pc) ==
    CASE pc \in 1..16  -> [cb EXCEPT !.id[pc] = 0]
      [] pc \in 17..24 ->
             [cb EXCEPT ![RttFields[pc - 16]] = rtt_cb_zero[RttFields[pc - 16]]]
      [] pc = 25 -> cb
      [] pc \in 26..33 ->
             [cb EXCEPT ![RttSetOrder[pc - 25]] =
                            rtt_init_cb[RttSetOrder[pc - 25]]]
      [] pc = 34 -> cb
      [] pc \in 35..50 -> [cb EXCEPT !.id[pc - 34] = RTT_MAGIC[pc - 34]]

\* handle_usb_connect up to the call of rtt_init
ConnectBegin ==
    /\ variant = "kbd"
    /\ init_pc = 0
    /\ emit_pc = -1
    /\ log_buf' = log_entry(log_buf, LOG_USB_CONNECT, << >>)
    /\ init_pc' = 1
    /\ UNCHANGED << variant, nhandled, hist_vars, swd_vars, emit_pc, emit_wr, emit_rec,
                    rtt_calls, published, consumed, usb_vars, env_vars,
                    diag, bat_report, latch_vars, g_vendor_cmd_buffer,
                    led_vars, rtt_vars, out_vars, nsetup, nvendor >>

\* the next store of rtt_init
RttInitStep ==
    /\ init_pc \in 1..INIT_LAST
    /\ rtt_cb' = rtt_init_step(rtt_cb, init_pc)
    /\ rtt_buf' = IF init_pc = 25 THEN ZeroBytes(RTT_BUF_SIZE) ELSE rtt_buf
    /\ init_pc' = init_pc + 1
    /\ UNCHANGED << variant, nhandled, hist_vars, swd_vars, emit_pc, emit_wr, emit_rec,
                    rtt_calls, published, consumed, usb_vars, env_vars,
                    diag_vars, bat_report, latch_vars, g_vendor_cmd_buffer,
                    led_vars, out_vars, nsetup, nvendor >>

\* handle_usb_connect after rtt_init has returned
ConnectEnd ==
    /\ init_pc = INIT_LAST + 1
    /\ wlen' = PatchWDescriptorLength(wlen)
    /\ extended_rdesc' = RebuildExtendedRdesc(g_if1_report_desc)
    /\ connected' = TRUE
    /\ ret' = 0
    /\ ep0_tx' = << >>
    /\ ep2_tx' = << >>
    /\ op' = [name |-> "usb_connect", arg |-> << >>]
    /\ nsetup' = nsetup + 1
    /\ init_pc' = 0
    /\ published' = << >>
    /\ consumed' = 0
    /\ UNCHANGED << variant, nhandled, hist_vars, swd_vars, emit_pc, emit_wr, emit_rec,
                    rtt_calls, g_if1_report_desc, env_vars, diag_vars,
                    bat_report, latch_vars, g_vendor_cmd_buffer, led_vars,
                    rtt_vars, nvendor >>

\* what rtt_cb may hold when the hooks first run: zeros, arbitrary bytes,
\* or the block an earlier run left in SRAM that kept its content
PowerOnCb ==
    { rtt_cb_zero,
      [id |-> [k \in 1..16 |-> (k * 7 + 165) % 256], max_up |-> 7,
       max_down |-> 9, name |-> "garbage", buf |-> "garbage",
       size |-> 9999, wr_off |-> 1000, rd_off |-> 3, flags |-> 5],
      [rtt_init_cb EXCEPT !.wr_off = 10, !.rd_off = 5] }

InitRttInit ==
    /\ variant = "kbd"
    /\ connected = FALSE
    /\ g_if1_report_desc = OrigRdesc(5)
    /\ extended_rdesc = ZeroBytes(EXTENDED_RDESC_LEN)
    /\ wlen = [f \in WLEN_FIELDS |-> LE16(IF1_RDESC_LEN)]
    /\ g_battery_level = 87
    /\ g_charger_connected = 0
    /\ ep2_ready = 1
    /\ diag = diag_zero
    /\ log_buf = log_buf_zero
    /\ bat_report = ZeroBytes(4)
    /\ prev_charging = 0
    /\ prev_inited = 0
    /\ prev_battery = 0
    /\ seen_charging = -1
    /\ seen_battery = -1
    /\ unsent = FALSE
    /\ rtt_cb \in PowerOnCb
    /\ rtt_buf = SramPattern(RTT_BUF_SIZE)
    /\ g_vendor_cmd_buffer = ZeroBytes(CMD_BUF_LEN)
    /\ InitLedEngine
    /\ static_led_pos_tbl = PosTbl(1)
    /\ led_effect_mode = 1
    /\ InitOut

NextRttInit ==
    \/ nsetup < MaxSetupCalls /\ ConnectBegin
    \/ RttInitStep
    \/ ConnectEnd
    \/ rtt_calls < MaxOps /\ EmitBegin
    \/ EmitStep
    \/ \E k \in ProbeChunks \cup {Unread} : ProbeRead(k)

SpecRttInit == InitRttInit /\ [][NextRttInit]_vars

\* C27: while rtt_init runs, on the first connect and on every later one,
\* a probe that takes the control block for valid only when the whole
\* signature is there never sees it valid with a field that is not
\* initialised: the signature is whole either before the run's first
\* store or after every field is set and the barrier has executed
C27_SignatureGuardsFields ==
    (init_pc # 0 /\ rtt_cb.id = RTT_MAGIC) =>
        \/ init_pc = 1
        \/ /\ init_pc > 34
           /\ rtt_cb.max_up = 1
           /\ rtt_cb.max_down = 0
           /\ rtt_cb.name = "rtt_channel_name"
           /\ rtt_cb.buf = "rtt_buf"
           /\ rtt_cb.size = 256
           /\ rtt_cb.wr_off = 0
           /\ rtt_cb.rd_off = 0
           /\ rtt_cb.flags = 0

\* the signature has become whole during a re-initialisation
C27_Witness ==
    /\ init_pc \in 35..INIT_LAST
    /\ rtt_cb.id = RTT_MAGIC
    /\ nsetup >= 1


\* ------------------------------------------------------------------------
\* Records of the setup filter (checked under SpecSetup, both variants)
\* ------------------------------------------------------------------------

\* C28: every handle_hid_setup invocation, matched or not, keyboard or
\* dongle, appends to the ring a setup-entry record (tag 1) with the 8
\* bytes of the setup packet and after it an outcome record (tag 2) whose
\* result byte is the value the invocation returns, 12 bytes in all, and
\* stores that value as the last result of the diagnostics record
C28_SetupLogged ==
    [][ (op'.name = "hid_setup" /\ nsetup' = nsetup + 1) =>
            LET h == log_buf.head
            IN  /\ log_buf'.data[h % 512] = 1
                /\ \A k \in 1..8 :
                      log_buf'.data[(h + k) % 512] = op'.arg[k]
                /\ log_buf'.data[(h + 9) % 512] = 2
                /\ log_buf'.data[(h + 10) % 512] = ret'
                /\ log_buf'.head = (h + 12) % 512
                /\ diag'.last_result = ret'
      ]_vars

\* ------------------------------------------------------------------------
\* Specification of the diagnostics record: setup-filter invocations on a
\* connected keyboard. diag lies in the same never-cleared .bss as log_buf
\* ------------------------------------------------------------------------

PowerOnDiag ==
    { diag_zero,
      [hid_setup_calls |-> [lo |-> 65535, hi |-> 65535],
       hid_setup_intercepts |-> [lo |-> 7, hi |-> 0],
       last_bmReqType |-> 165, last_bRequest |-> 90, last_wValue |-> 4660,
       last_wIndex |-> 9, last_wLength |-> 77,
       last_battery_level |-> 201, last_result |-> 9] }

\* a matching request, the same with a short wLength, and a request to
\* interface 0
DiagPkts ==
    { SetupBytes(161, 1, 775, 1, 3), SetupBytes(161, 1, 775, 1, 2),
      SetupBytes(161, 1, 775, 0, 3) }

InitDiag ==
    /\ variant = "kbd"
    /\ connected = TRUE
    /\ g_if1_report_desc = OrigRdesc(5)
    /\ extended_rdesc = RebuildExtendedRdesc(g_if1_report_desc)
    /\ wlen = PatchWDescriptorLength([f \in WLEN_FIELDS |->
                                         LE16(IF1_RDESC_LEN)])
    /\ g_battery_level = 87
    /\ g_charger_connected = 0
    /\ ep2_ready = 1
    /\ diag \in PowerOnDiag
    /\ log_buf = log_entry(log_buf_zero, LOG_USB_CONNECT, << >>)
    /\ bat_report = ZeroBytes(4)
    /\ prev_charging = 0
    /\ prev_inited = 0
    /\ prev_battery = 0
    /\ seen_charging = -1
    /\ seen_battery = -1
    /\ unsent = FALSE
    /\ rtt_cb = rtt_init_cb
    /\ rtt_buf = ZeroBytes(RTT_BUF_SIZE)
    /\ g_vendor_cmd_buffer = ZeroBytes(CMD_BUF_LEN)
    /\ InitLedEngine
    /\ static_led_pos_tbl = PosTbl(1)
    /\ led_effect_mode = 1
    /\ InitOut

NextDiag ==
    \/ nsetup < MaxSetupCalls /\ \E pkt \in DiagPkts : KbdHidSetup(pkt)
    \/ \E level \in BatteryLevels, charging \in Charging, ready \in {0, 1} :
          EnvChange(level, charging, ready)

SpecDiag == InitDiag /\ [][NextDiag]_vars

\* C29: after any sequence of setup-filter invocations the total-call
\* counter is the number of invocations and the intercept counter the
\* number of them that returned handled, both modulo 2^32, so intercepts
\* never exceed calls; right after an invocation the last-request fields
\* are the fields of its setup packet and the last result is its verdict
C29_DiagCounts ==
    nsetup > 0 =>
        /\ diag.hid_setup_calls.lo = nsetup % 65536
        /\ diag.hid_setup_calls.hi = (nsetup \div 65536) % 65536
        /\ diag.hid_setup_intercepts.lo = nhandled % 65536
        /\ diag.hid_setup_intercepts.hi = (nhandled \div 65536) % 65536
        /\ \/ diag.hid_setup_intercepts.hi < diag.hid_setup_calls.hi
           \/ /\ diag.hid_setup_intercepts.hi = diag.hid_setup_calls.hi
              /\ diag.hid_setup_intercepts.lo <= diag.hid_setup_calls.lo
        /\ op.name = "hid_setup" =>
              /\ diag.last_bmReqType = op.arg[1]
              /\ diag.last_bRequest = op.arg[2]
              /\ diag.last_wValue = op.arg[3] + 256 * op.arg[4]
              /\ diag.last_wIndex = op.arg[5] + 256 * op.arg[6]
              /\ diag.last_wLength = op.arg[7] + 256 * op.arg[8]
              /\ diag.last_result = ret

\* ------------------------------------------------------------------------
\* The patch-info command (checked under Spec)
\* ------------------------------------------------------------------------

PatchInfoStep ==
    /\ op'.name = "vendor_cmd"
    /\ nvendor' = nvendor + 1
    /\ op'.arg[1] # 0
    /\ op'.arg[2] = 251

\* C30: patch-info writes the response block into the mailbox, signature
\* 0xCA 0xFE, version 1, capabilities 0x0007, "MONSMOD" and a NUL, the
\* diagnostics record, the battery level and the charger flag of the raw
\* snapshot, and clears the pending flag; the diagnostics record, the LED
\* engine mode, the saved and the current animation mode, the Frame and
\* Display Buffers, the telemetry ring, the descriptors and the battery
\* state stay as they were, as do the mailbox bytes outside the response
C30_PatchInfoReadOnly ==
    [][ PatchInfoStep =>
            /\ ret' = 1
            /\ g_vendor_cmd_buffer'[0] = 0
            /\ \A k \in 1..8 :
                  g_vendor_cmd_buffer'[2 + k] =
                      << 202, 254, 1, 7, 0, 77, 79, 78 >>[k]
            /\ \A k \in 1..5 :
                  g_vendor_cmd_buffer'[10 + k] = << 83, 77, 79, 68, 0 >>[k]
            /\ g_vendor_cmd_buffer'[16] = diag.hid_setup_calls.lo % 256
            /\ g_vendor_cmd_buffer'[17] = diag.hid_setup_calls.lo \div 256
            /\ g_vendor_cmd_buffer'[18] = diag.hid_setup_intercepts.lo % 256
            /\ g_vendor_cmd_buffer'[19] =
                   diag.hid_setup_intercepts.lo \div 256
            /\ g_vendor_cmd_buffer'[20] = diag.last_bmReqType
            /\ g_vendor_cmd_buffer'[21] = diag.last_bRequest
            /\ g_vendor_cmd_buffer'[22] = diag.last_wValue % 256
            /\ g_vendor_cmd_buffer'[23] = diag.last_wValue \div 256
            /\ g_vendor_cmd_buffer'[24] = diag.last_wIndex % 256
            /\ g_vendor_cmd_buffer'[25] = diag.last_wIndex \div 256
            /\ g_vendor_cmd_buffer'[26] = diag.last_wLength % 256
            /\ g_vendor_cmd_buffer'[27] = diag.last_wLength \div 256
            /\ g_vendor_cmd_buffer'[28] = diag.last_battery_level
            /\ g_vendor_cmd_buffer'[29] = diag.last_result
            /\ g_vendor_cmd_buffer'[30] = g_battery_level
            /\ g_vendor_cmd_buffer'[31] = g_charger_connected
            /\ \A k \in {1, 2} \cup (50..63) :
                  g_vendor_cmd_buffer'[k] = g_vendor_cmd_buffer[k]
            /\ diag' = diag
            /\ stream_active' = stream_active
            /\ saved_led_effect_mode' = saved_led_effect_mode
            /\ led_effect_mode' = led_effect_mode
            /\ g_led_frame_buf' = g_led_frame_buf
            /\ g_led_dma_buf' = g_led_dma_buf
            /\ rtt_cb' = rtt_cb
            /\ rtt_buf' = rtt_buf
            /\ UNCHANGED << usb_vars, env_vars, static_led_pos_tbl >>
      ]_vars

\* patch-info has been served after a matched setup request
C30_Witness ==
    /\ op.name = "vendor_cmd"
    /\ op.arg[1] # 0
    /\ op.arg[2] = 251
    /\ ret = 1
    /\ g_vendor_cmd_buffer[3] = 202
    /\ g_vendor_cmd_buffer[18] = 1
    /\ g_vendor_cmd_buffer[29] = 1


\* ------------------------------------------------------------------------
\* Specification of the battery reports: every handler that transmits one,
\* in both variants, over the values the firmware's battery and charge
\* bytes can hold
\* ------------------------------------------------------------------------

\* values of the uint8_t g_battery_level / kb_battery_info
FieldLevels == {100, 200}

\* values of the uint8_t g_charger_connected / kb_charging
FieldCharging == {0, 1, 2}

\* requested lengths of the matching GET_REPORT
ReportWLengths == {1, 8}

InitBattery ==
    /\ variant \in {"kbd", "dongle"}
    /\ connected = FALSE
    /\ g_if1_report_desc = OrigRdesc(5)
    /\ extended_rdesc = ZeroBytes(EXTENDED_RDESC_LEN)
    /\ wlen = [f \in WLEN_FIELDS |-> LE16(IF1_RDESC_LEN)]
    /\ g_battery_level \in FieldLevels
    /\ g_charger_connected \in FieldCharging
    /\ ep2_ready = 1
    /\ InitStatics
    /\ InitLedEngine
    /\ static_led_pos_tbl = PosTbl(1)
    /\ led_effect_mode = 1
    /\ InitOut

NextBattery ==
    \/ \E level \in FieldLevels, charging \in FieldCharging :
          EnvChange(level, charging, ep2_ready)
    \/ nsetup + nvendor < MaxOps /\ UsbConnect
    \/ nsetup + nvendor < MaxOps /\ UsbInit
    \/ nsetup + nvendor < MaxOps
          /\ \E w \in ReportWLengths :
                KbdHidSetup(SetupBytes(161, 1, 775, 1, w))
    \/ nsetup + nvendor < MaxOps
          /\ \E w \in ReportWLengths :
                DongleHidSetup(SetupBytes(161, 1, 775, 1, w))
    \/ nsetup + nvendor < MaxOps /\ VendorCmd
    \/ nsetup + nvendor < MaxOps /\ RfDispatch

SpecBattery == InitBattery /\ [][NextBattery]_vars

\* the bytes of a transmitted report, as far as it was sent, follow the
\* layout [7, level 0..100, charging 0|1]
ReportInLayout(t) ==
    /\ Len(t) >= 1 => t[1] = 7
    /\ Len(t) >= 2 => t[2] \in 0..100
    /\ Len(t) >= 3 => t[3] \in {0, 1}

\* C31: every battery report transmitted on the control endpoint or the
\* interrupt-IN endpoint, in both variants, has byte 0 = 7, a level byte
\* in 0..100 and a charging byte in {0, 1}, for every value the battery
\* and charge bytes of the firmware can hold.
C31_ReportsInLayout ==
    /\ \A k \in 1..Len(ep0_tx) : ReportInLayout(ep0_tx[k])
    /\ \A k \in 1..Len(ep2_tx) : ReportInLayout(ep2_tx[k])


\* ------------------------------------------------------------------------
\* The two handle_hid_setup implementations side by side
\* ------------------------------------------------------------------------

\* keyboard handle_hid_setup on the current state: verdict, transmissions
\* and descriptor state it leaves
KbdSetupOutcome(pkt) ==
    LET s   == SetupView(pkt)
        hit == IsBatteryGetReport(s)
        rep == BatReport(bat_report, g_battery_level, g_charger_connected)
    IN  [ret   |-> IF hit THEN 1 ELSE 0,
         ep0   |-> IF hit THEN << Wire(rep, XferLen(s.wLength)) >>
                   ELSE << >>,
         ep2   |-> IF hit /\ ep2_ready # 0
                   THEN << bat_input(g_battery_level, g_charger_connected) >>
                   ELSE << >>,
         rdesc |-> RebuildExtendedRdesc(g_if1_report_desc),
         wlen  |-> PatchWDescriptorLength(wlen)]

\* dongle handle_hid_setup on the current state
DongleSetupOutcome(pkt) ==
    LET s   == SetupView(pkt)
        hit == IsBatteryGetReport(s)
        rep == BatReport(bat_report, g_battery_level, g_charger_connected)
    IN  [ret   |-> IF hit THEN 1 ELSE 0,
         ep0   |-> IF hit THEN << Wire(rep, XferLen(s.wLength)) >>
                   ELSE << >>,
         ep2   |-> IF hit
                   THEN << bat_input(g_battery_level, g_charger_connected) >>
                   ELSE << >>,
         rdesc |-> RebuildExtendedRdesc(g_if1_report_desc),
         wlen  |-> PatchWDescriptorLength(wlen)]

\* a step of handle_hid_setup, either variant
SetupStep == nsetup' = nsetup + 1 /\ op'.name = "hid_setup"

\* what the step left
SetupOutcomeAfter ==
    [ret   |-> ret',
     ep0   |-> ep0_tx',
     ep2   |-> ep2_tx',
     rdesc |-> extended_rdesc',
     wlen  |-> wlen']

\* each action leaves what its variant's function computes
SetupOutcomeOwn ==
    [][SetupStep =>
          SetupOutcomeAfter = IF variant = "kbd"
                              THEN KbdSetupOutcome(op'.arg)
                              ELSE DongleSetupOutcome(op'.arg)]_vars

\* C32: run on the same setup packet, battery/charge state and
\* interrupt-IN endpoint state, the keyboard and the dongle
\* handle_hid_setup return the same verdict, start the same
\* control-endpoint transmission, make the same decision and send the
\* same bytes on the interrupt-IN endpoint, and leave the descriptor
\* buffer and the length fields in the same state: every invocation of
\* one variant leaves what the other variant would have left.
C32_VariantsAgree ==
    [][SetupStep =>
          SetupOutcomeAfter = IF variant = "kbd"
                              THEN DongleSetupOutcome(op'.arg)
                              ELSE KbdSetupOutcome(op'.arg)]_vars


\* ------------------------------------------------------------------------
\* Specification of the hooks on power-on memory: every static of the
\* patch lies in .bss -> PATCH_SRAM (handlers.c:90, 114), which no start-up
\* code clears (handlers.c:157); handle_usb_connect is the only routine
\* that initialises anything, and it runs when USB connects, if ever
\* ------------------------------------------------------------------------

\* contents of the patch's statics when the first hook runs: zeros,
\* arbitrary bytes, or what an earlier run left in SRAM that kept its
\* content over a reset
PowerOnMem ==
    { [log |-> log_buf_zero, cb |-> rtt_cb_zero, buf |-> ZeroBytes(RTT_BUF_SIZE),
       d |-> diag_zero, active |-> 0, saved |-> 0, prev |-> 0],
      [log |-> [head |-> 600, count |-> 700,
                data |-> SramPattern(LOG_BUF_SIZE)],
       cb |-> [id |-> [k \in 1..16 |-> (k * 7 + 165) % 256], max_up |-> 7,
               max_down |-> 9, name |-> "garbage", buf |-> "garbage",
               size |-> 9999, wr_off |-> 1000, rd_off |-> 3, flags |-> 5],
       buf |-> SramPattern(RTT_BUF_SIZE),
       d |-> [hid_setup_calls |-> [lo |-> 65535, hi |-> 65535],
              hid_setup_intercepts |-> [lo |-> 7, hi |-> 0],
              last_bmReqType |-> 165, last_bRequest |-> 90,
              last_wValue |-> 4660, last_wIndex |-> 9, last_wLength |-> 77,
              last_battery_level |-> 201, last_result |-> 9],
       active |-> 165, saved |-> 172, prev |-> 179],
      [log |-> [head |-> 5, count |-> 3, data |-> SramPattern(LOG_BUF_SIZE)],
       cb |-> [rtt_init_cb EXCEPT !.wr_off = 10, !.rd_off = 5],
       buf |-> SramPattern(RTT_BUF_SIZE),
       d |-> diag_zero, active |-> 1, saved |-> 5, prev |-> 1] }

\* pages of the led-stream commands the host writes: data page, release
PowerOnPages == {0, PAGE_RELEASE}

InitPowerOn ==
    /\ variant = "kbd"
    /\ connected = FALSE
    /\ g_if1_report_desc = OrigRdesc(5)
    /\ extended_rdesc = ZeroBytes(EXTENDED_RDESC_LEN)
    /\ wlen = [f \in WLEN_FIELDS |-> LE16(IF1_RDESC_LEN)]
    /\ g_battery_level = 87
    /\ g_charger_connected = 0
    /\ ep2_ready = 1
    /\ \E m \in PowerOnMem :
          /\ log_buf = m.log
          /\ rtt_cb = m.cb
          /\ rtt_buf = m.buf
          /\ diag = m.d
          /\ stream_active = m.active
          /\ saved_led_effect_mode = m.saved
          /\ prev_charging = m.prev
    /\ bat_report = ZeroBytes(4)
    /\ prev_inited = 0
    /\ prev_battery = 0
    /\ seen_charging = -1
    /\ seen_battery = -1
    /\ unsent = FALSE
    /\ g_vendor_cmd_buffer = ZeroBytes(CMD_BUF_LEN)
    /\ led_effect_mode = 1
    /\ static_led_pos_tbl = PosTbl(1)
    /\ g_led_frame_buf = BufFill(1)
    /\ g_led_dma_buf = BufFill(101)
    /\ frame0 = g_led_frame_buf
    /\ commit_pc = "idle"
    /\ copy_pos = 0
    /\ scan_pos = 0
    /\ scanned = [j \in 0..(LED_BUF_SIZE - 1) |-> -1]
    /\ overlapped = FALSE
    /\ images = {g_led_dma_buf}
    /\ session = "released"
    /\ mode_at_entry = led_effect_mode
    /\ submitted = [pos \in 0..(MATRIX_LEN - 1) |-> << >>]
    /\ InitOut

\* no handler is in progress: the hooks run to completion one at a time
Quiet == emit_pc = -1 /\ init_pc = 0

\* handler invocations so far
PowerOnOps == nsetup + nvendor + rtt_calls + log_total

NextPowerOn ==
    \/ PowerOnOps < MaxOps /\ ConnectBegin
    \/ RttInitStep
    \/ ConnectEnd
    \/ PowerOnOps < MaxOps /\ Quiet
          /\ KbdHidSetup(SetupBytes(161, 1, 775, 1, 3))
    \/ PowerOnOps < MaxOps /\ EmitBegin
    \/ EmitStep
    \/ \E len \in {0, 1} : PowerOnOps < MaxOps /\ Quiet /\ LogEntry(len)
    \/ \E p \in PowerOnPages :
          PowerOnOps < MaxOps /\ Quiet /\ HostWrite(CMD_LED_STREAM, p, 17)
    \/ PowerOnOps < MaxOps /\ Quiet /\ VendorCmd

SpecPowerOn == InitPowerOn /\ [][NextPowerOn]_vars

\* the led-stream commands on power-on memory
SpecLedPowerOn == InitPowerOn /\ [][NextLed]_vars

\* C33: every persistent buffer of the layer is zero-initialised by the
\* layer's start-up routine before its first use, so that from arbitrary
\* power-on memory no hook works on an uninitialised head, offset or flag:
\* every data[] index a log_entry call stores to is below 512, every
\* rtt_buf index an rtt_emit call stores to is below 256, and a served
\* led-stream command leaves the engine mode flag at 0 or 1.
C33_PowerOnSafe ==
    /\ \A k \in 1..Len(log_idx) : log_idx[k] \in 0..(LOG_BUF_SIZE - 1)
    /\ emit_pc \in 0..4 => emit_wr \in 0..(RTT_BUF_SIZE - 1)
    /\ (op.name = "vendor_cmd" /\ op.arg[1] # 0
            /\ op.arg[2] = CMD_LED_STREAM) => stream_active \in {0, 1}


\* ------------------------------------------------------------------------
\* Specification of the data pages: every page 0..6 in any order, over
\* position maps with gaps, with out-of-range entries and with the entry
\* 82 next to the last output index
\* ------------------------------------------------------------------------

\* the first position map with the gap at 14 holding 82, the gap at 45
\* holding 254 and the gap at 83 holding 128
PosTblEdge ==
    [pos \in 0..(MATRIX_LEN - 1) |->
        IF pos = 14 THEN LED_COUNT
        ELSE IF pos = 45 THEN 254
        ELSE IF pos = 83 THEN 128
        ELSE PosTbl(1)[pos]]

\* << page, payload seed >>: every data page, page 2 with two payloads
DataPages ==
    { << 0, 17 >>, << 1, 17 >>, << 2, 17 >>, << 2, 140 >>, << 3, 17 >>,
      << 4, 17 >>, << 5, 17 >>, << 6, 17 >> }

InitPages ==
    /\ variant = "kbd"
    /\ InitUsb
    /\ g_if1_report_desc = OrigRdesc(5)
    /\ g_battery_level = 87
    /\ g_charger_connected = 0
    /\ ep2_ready = 1
    /\ InitStatics
    /\ stream_active = 0
    /\ saved_led_effect_mode = 0
    /\ led_effect_mode = 1
    /\ static_led_pos_tbl \in {PosTbl(1), PosTbl(2), PosTblEdge}
    /\ g_led_frame_buf = BufFill(1)
    /\ g_led_dma_buf = BufFill(101)
    /\ frame0 = g_led_frame_buf
    /\ commit_pc = "idle"
    /\ copy_pos = 0
    /\ scan_pos = 0
    /\ scanned = [j \in 0..(LED_BUF_SIZE - 1) |-> -1]
    /\ overlapped = FALSE
    /\ images = {g_led_dma_buf}
    /\ session = "released"
    /\ mode_at_entry = led_effect_mode
    /\ submitted = [pos \in 0..(MATRIX_LEN - 1) |-> << >>]
    /\ InitOut

NextPages ==
    \/ nvendor < MaxVendorCalls
          /\ \E c \in DataPages : HostWrite(CMD_LED_STREAM, c[1], c[2])
    \/ nvendor < MaxVendorCalls /\ g_vendor_cmd_buffer[0] # 0 /\ VendorCmd

SpecPages == InitPages /\ [][NextPages]_vars

\* the logical positions of a page that lie inside the position map
PagePositions(page) ==
    {page * PAGE_KEYS + i : i \in 0..(PAGE_KEYS - 1)} \cap 0..(MATRIX_LEN - 1)

\* the output indices the page's positions map to
PageOutputs(page) ==
    {static_led_pos_tbl[pos] : pos \in PagePositions(page)}
        \cap 0..(LED_COUNT - 1)

\* the Frame Buffer bytes that differ before and after the step
FrameChanged == {j \in 0..(LED_BUF_SIZE - 1) :
                    g_led_frame_buf'[j] # g_led_frame_buf[j]}

\* C34: a data-page write of page 0..6 changes only Frame Buffer bytes in
\* the 24-byte slots of output indices < 82 that positions page*18+i < 96
\* map to (none for map values >= 82, sentinel or not), inside the
\* 1968-byte buffer; page 5 reaches at most the slots of positions 90..95
\* and page 6 changes no byte, yet is handled, clears the pending flag
\* and enters Streaming.
C34_DataPageWritesMappedSlots ==
    [][DataPageStep(op') =>
          LET page == op'.arg[3]
          IN  /\ DOMAIN g_led_frame_buf' = 0..(LED_BUF_SIZE - 1)
              /\ \A j \in FrameChanged :
                    \E idx \in PageOutputs(page) :
                       j \in (idx * LED_SLOT)..(idx * LED_SLOT + LED_SLOT - 1)
              /\ page = 5 => PagePositions(page) = 90..95
              /\ page = 6 => /\ PagePositions(page) = {}
                             /\ g_led_frame_buf' = g_led_frame_buf
              /\ ret' = 1
              /\ g_vendor_cmd_buffer'[0] = 0
              /\ stream_active' # 0
              /\ session' = "streaming"]_vars

\* page 6 was served first after power-on: the engine is Streaming and
\* the Frame Buffer is as it was
C34_Witness ==
    /\ LedStep(op, 6)
    /\ nvendor = 1
    /\ ret = 1
    /\ g_vendor_cmd_buffer[0] = 0
    /\ stream_active = 1
    /\ led_effect_mode = MODE_SUSPENDED
    /\ g_led_frame_buf = frame0



\* ------------------------------------------------------------------------
\* The commit and the engine mode
\* ------------------------------------------------------------------------

\* C35: a commit changes neither the engine mode, the saved animation
\* mode nor the animation-mode field, Streaming or Released; found while
\* Released it still copies the Frame Buffer into the Display Buffer,
\* returns handled and clears the pending flag, and the engine stays
\* Released with the built-in animation mode in place.
C35_CommitKeepsMode ==
    [][LedStep(op', PAGE_COMMIT) =>
          /\ stream_active' = stream_active
          /\ saved_led_effect_mode' = saved_led_effect_mode
          /\ led_effect_mode' = led_effect_mode
          /\ session' = session
          /\ stream_active = 0 =>
                /\ \A j \in 0..(LED_BUF_SIZE - 1) :
                      g_led_dma_buf'[j] = g_led_frame_buf[j]
                /\ g_led_frame_buf' = g_led_frame_buf
                /\ ret' = 1
                /\ g_vendor_cmd_buffer'[0] = 0
                /\ stream_active' = 0]_vars

\* a commit was served while Released, after a session was released: the
\* display shows the frame of that session and the animation mode is the
\* built-in one
C35_Witness ==
    /\ LedStep(op, PAGE_COMMIT)
    /\ nvendor = 3
    /\ stream_active = 0
    /\ session = "released"
    /\ g_led_frame_buf # frame0
    /\ g_led_dma_buf = g_led_frame_buf
    /\ led_effect_mode \in LedModes
    /\ ret = 1
    /\ g_vendor_cmd_buffer[0] = 0


\* ------------------------------------------------------------------------
\* The command record of commands that are passed through
\* ------------------------------------------------------------------------

\* C36: every handle_vendor_cmd invocation that finds the pending flag
\* set and an opcode other than 0xFD appends exactly one record
\* {0x03, pending-flag byte, opcode} to the LogRing, also when it returns
\* not-handled (opcode not of the patch, led-stream page in 7..0xFD);
\* such a command stays pending, so the next invocation on it appends a
\* further record.
C36_PassThroughLogged ==
    [][(VendorStep /\ g_vendor_cmd_buffer[0] # 0
            /\ g_vendor_cmd_buffer[2] # CMD_LOG_READ) =>
           /\ log_buf' = WithRecord(log_buf, LOG_VENDOR_CMD_ENTRY,
                                    g_vendor_cmd_buffer[0],
                                    g_vendor_cmd_buffer[2])
           /\ ~DefinedCommand(MailboxCommand) =>
                  /\ ret' = 0
                  /\ g_vendor_cmd_buffer' = g_vendor_cmd_buffer
                  /\ MailboxCommand' = MailboxCommand]_vars

\* two invocations found the same command with opcode 0xFA pending: two
\* records, and it is pending still
C36_Witness ==
    /\ VendorDone
    /\ nvendor = 2
    /\ nsetup = 0
    /\ op.arg = << 1, 250, 0 >>
    /\ ret = 0
    /\ g_vendor_cmd_buffer[0] = 1
    /\ log_buf.count = 6
    /\ log_buf.head = 6
    /\ << log_buf.data[0], log_buf.data[1], log_buf.data[2] >> = << 3, 1, 250 >>
    /\ << log_buf.data[3], log_buf.data[4], log_buf.data[5] >> = << 3, 1, 250 >>


\* ------------------------------------------------------------------------
\* Specification of the TelemetryRing over a USB re-connect: rtt_emit
\* calls, handle_usb_connect running rtt_init again on the live ring, and
\* a probe that polls over SWD, one memory access after the other: it
\* reads wr_off and rd_off, reads the bytes between them, writes rd_off.
\* The probe takes each of its steps only while the signature is valid.
\* ------------------------------------------------------------------------

\* the probe reads the two offsets of a control block it finds valid
ProbeLatch ==
    /\ pr_pc = 0
    /\ rtt_cb.id = RTT_MAGIC
    /\ rtt_cb.wr_off < RTT_BUF_SIZE
    /\ rtt_cb.rd_off < RTT_BUF_SIZE
    /\ rtt_cb.wr_off # rtt_cb.rd_off
    /\ pr_wr' = rtt_cb.wr_off
    /\ pr_rd' = rtt_cb.rd_off
    /\ pr_pc' = 1
    /\ UNCHANGED << variant, nhandled, hist_vars, emit_pc, emit_wr, emit_rec,
                    init_pc, rtt_calls, published, consumed, pr_bytes,
                    usb_vars, env_vars, diag_vars, bat_report, latch_vars,
                    g_vendor_cmd_buffer, led_vars, rtt_vars, out_vars,
                    nsetup, nvendor >>

\* the probe reads the bytes from the read offset up to the writer offset
ProbeFetch ==
    LET n == (pr_wr + RTT_BUF_SIZE - pr_rd) % RTT_BUF_SIZE
    IN  /\ pr_pc = 1
        /\ rtt_cb.id = RTT_MAGIC
        /\ pr_bytes' = [i \in 1..n |-> rtt_buf[(pr_rd + i - 1) % RTT_BUF_SIZE]]
        /\ pr_pc' = 2
        /\ UNCHANGED << variant, nhandled, hist_vars, emit_pc, emit_wr,
                        emit_rec, init_pc, rtt_calls, published, consumed,
                        pr_wr, pr_rd, usb_vars, env_vars, diag_vars,
                        bat_report, latch_vars, g_vendor_cmd_buffer,
                        led_vars, rtt_vars, out_vars, nsetup, nvendor >>

\* the probe advances the read offset to the writer offset it had read
ProbeAdvance ==
    /\ pr_pc = 2
    /\ rtt_cb.id = RTT_MAGIC
    /\ rtt_cb' = [rtt_cb EXCEPT !.rd_off = pr_wr]
    /\ consumed' = consumed + Len(pr_bytes)
    /\ pr_pc' = 0
    /\ UNCHANGED << variant, nhandled, hist_vars, emit_pc, emit_wr, emit_rec,
                    init_pc, rtt_calls, published, pr_wr, pr_rd, pr_bytes,
                    usb_vars, env_vars, diag_vars, bat_report, latch_vars,
                    g_vendor_cmd_buffer, led_vars, rtt_buf, out_vars,
                    nsetup, nvendor >>

NextReinit ==
    \/ nsetup < MaxSetupCalls /\ ConnectBegin
    \/ RttInitStep
    \/ ConnectEnd
    \/ rtt_calls < MaxOps /\ EmitBegin
    \/ EmitStep
    \/ ProbeLatch
    \/ ProbeFetch
    \/ ProbeAdvance

SpecReinit == InitRtt /\ [][NextReinit]_vars

\* the published bytes the probe has not consumed
Pending37 == 5 * Len(published) - consumed

\* C37: in every interleaving of rtt_emit calls, re-initialisations of
\* the ring by handle_usb_connect and the probe's steps, the bytes the
\* probe reads between the read offset and the writer offset while the
\* signature is valid are bytes of complete records published since the
\* latest initialisation and not consumed before, in order; no byte the
\* probe takes is a zeroed or stale one, and no store of rtt_emit falls
\* into the bytes between the read offset and the writer offset.
C37_ProbeReadsPublished ==
    [][ /\ (pr_pc = 1 /\ pr_pc' = 2) =>
              /\ Len(pr_bytes') <= Pending37
              /\ \A i \in 1..Len(pr_bytes') :
                    pr_bytes'[i] = StreamByte(consumed + i - 1)
        /\ (emit_pc \in 0..4 /\ emit_pc' # emit_pc) =>
              \A i \in 0..(Unread - 1) :
                 rtt_buf'[(rtt_cb.rd_off + i) % 256]
                     = rtt_buf[(rtt_cb.rd_off + i) % 256]
      ]_vars


\* ------------------------------------------------------------------------
\* Specification of the diagnostics block of patch-info: setup-filter
\* invocations and patch-info commands on a record whose 32-bit counters
\* are below, at and above the 16-bit range
\* ------------------------------------------------------------------------

\* values of the two uint32_t counters when the commands start
InfoCounters ==
    { [calls |-> U32_ZERO, hits |-> U32_ZERO],
      [calls |-> [lo |-> 65535, hi |-> 0], hits |-> [lo |-> 300, hi |-> 0]],
      [calls |-> [lo |-> 4660, hi |-> 3], hits |-> [lo |-> 65535, hi |-> 1]] }

\* a matching request with a wLength above 255, a GET_DESCRIPTOR with
\* wValue and wIndex above 255
InfoPkts ==
    { SetupBytes(161, 1, 775, 1, 515), SetupBytes(129, 6, 8704, 769, 217) }

InitInfo ==
    /\ variant = "kbd"
    /\ connected = TRUE
    /\ g_if1_report_desc = OrigRdesc(5)
    /\ extended_rdesc = RebuildExtendedRdesc(g_if1_report_desc)
    /\ wlen = PatchWDescriptorLength([f \in WLEN_FIELDS |->
                                         LE16(IF1_RDESC_LEN)])
    /\ g_battery_level \in BatteryLevels
    /\ g_charger_connected = 0
    /\ ep2_ready = 1
    /\ \E c \in InfoCounters :
          diag = [diag_zero EXCEPT !.hid_setup_calls = c.calls,
                                   !.hid_setup_intercepts = c.hits]
    /\ log_buf = log_entry(log_buf_zero, LOG_USB_CONNECT, << >>)
    /\ bat_report = ZeroBytes(4)
    /\ prev_charging = 0
    /\ prev_inited = 0
    /\ prev_battery = 0
    /\ seen_charging = -1
    /\ seen_battery = -1
    /\ unsent = FALSE
    /\ rtt_cb = rtt_init_cb
    /\ rtt_buf = ZeroBytes(RTT_BUF_SIZE)
    /\ g_vendor_cmd_buffer = ZeroBytes(CMD_BUF_LEN)
    /\ InitLedEngine
    /\ static_led_pos_tbl = PosTbl(1)
    /\ led_effect_mode = 1
    /\ InitOut

NextInfo ==
    \/ nsetup + nvendor < MaxOps /\ \E pkt \in InfoPkts : KbdHidSetup(pkt)
    \/ nsetup + nvendor < MaxOps /\ HostWrite(CMD_PATCH_INFO, 0, 0)
    \/ nsetup + nvendor < MaxOps /\ VendorCmd

SpecInfo == InitInfo /\ [][NextInfo]_vars

\* the value of a uint32_t counter below 2^31
U32Val(c) == c.hi * 65536 + c.lo

\* the 2-byte little-endian value at buf[at], buf[at + 1]
Field16(buf, at) == buf[at] + 256 * buf[at + 1]

\* a patch-info command has just been served
PatchInfoDone == VendorDone /\ op.arg[1] # 0 /\ op.arg[2] = CMD_PATCH_INFO

\* C38: the patch-info response holds the total-call and total-intercept
\* counters as 2-byte little-endian values equal to the 32-bit counters
\* modulo 65536, last wValue, wIndex and wLength as 2-byte little-endian
\* values, and last requestType, request, battery level and result as
\* single bytes, whatever the DiagnosticsRecord holds.
C38_DiagBlockLayout ==
    PatchInfoDone =>
        /\ Field16(g_vendor_cmd_buffer, 16)
               = U32Val(diag.hid_setup_calls) % 65536
        /\ Field16(g_vendor_cmd_buffer, 18)
               = U32Val(diag.hid_setup_intercepts) % 65536
        /\ g_vendor_cmd_buffer[20] = diag.last_bmReqType
        /\ g_vendor_cmd_buffer[21] = diag.last_bRequest
        /\ Field16(g_vendor_cmd_buffer, 22) = diag.last_wValue
        /\ Field16(g_vendor_cmd_buffer, 24) = diag.last_wIndex
        /\ Field16(g_vendor_cmd_buffer, 26) = diag.last_wLength
        /\ g_vendor_cmd_buffer[28] = diag.last_battery_level
        /\ g_vendor_cmd_buffer[29] = diag.last_result
        /\ \A i \in 16..29 : g_vendor_cmd_buffer[i] \in 0..255

\* patch-info after the call counter passed 65535 and a handled request
\* with wLength 0x0203: the response reports 0 calls and 301 intercepts
C38_Witness ==
    /\ PatchInfoDone
    /\ diag.hid_setup_calls = [lo |-> 0, hi |-> 1]
    /\ diag.last_wLength = 515
    /\ << g_vendor_cmd_buffer[16], g_vendor_cmd_buffer[17] >> = << 0, 0 >>
    /\ << g_vendor_cmd_buffer[18], g_vendor_cmd_buffer[19] >> = << 45, 1 >>
    /\ << g_vendor_cmd_buffer[26], g_vendor_cmd_buffer[27] >> = << 3, 2 >>
    /\ g_vendor_cmd_buffer[29] = 1


\* ------------------------------------------------------------------------
\* The dongle's change detection over a sequence of calls
\* ------------------------------------------------------------------------

\* a step of the dongle's handle_rf_dispatch
RfStep == variant = "dongle" /\ nvendor' = nvendor + 1

\* the (battery, charging) pair the call observes
ObservedPair == << g_battery_level, g_charger_connected >>

\* C39: over any sequence of handle_rf_dispatch calls an Input report
\* [7, battery, charging] is pushed on the first call and afterwards
\* exactly on the calls that observe a (battery, charging) pair other
\* than the previous call observed; a call observing the same pair pushes
\* nothing, and a pushed report carries the pair the call observed.
C39_PushOnPairChange ==
    [][RfStep =>
          ep2_tx' = IF nvendor = 0
                       \/ ObservedPair # << seen_battery, seen_charging >>
                    THEN << << 7, g_battery_level, g_charger_connected >> >>
                    ELSE << >>]_vars

\* the third call pushed for a battery level that changed while the
\* charging value stayed as the second call had observed it
C39_Witness ==
    /\ variant = "dongle"
    /\ op.name = "rf_dispatch"
    /\ nvendor = 3
    /\ g_charger_connected = 1
    /\ ep2_tx = << << 7, 100, 1 >> >>
    /\ prev_battery = 100
    /\ prev_charging = 1

====
